---- MODULE Spec2Model ----
(***************************************************************************)
(* Field-extraction and validation pipeline of the tax-form processor      *)
(* (src/src/nlp_processor.py): the entity merger, the field validator and  *)
(* the pipeline orchestrator, each modelled as one call of the method on   *)
(* inputs drawn from bounded sets; and the document and batch processing   *)
(* of TaxFormProcessor (src/src/main.py) with its OCR, database and        *)
(* e-filing collaborators, modelled as the loop of process_batch; and the  *)
(* submission life cycle of EFilingIntegration                             *)
(* (src/src/efiling_integration.py), modelled as any sequence of its calls *)
(* against a provider endpoint that answers as it likes.                   *)
(*                                                                         *)
(* Conventions.                                                            *)
(*  - A Python str is a TLA+ string, read character by character with     *)
(*    Len, SubSeq, Head and Tail; a regular expression is an operator      *)
(*    over strings.                                                        *)
(*  - A confidence is kept in exact decimal: entity confidences in         *)
(*    hundredths (0.95 is 95), validation confidences in tenths (1.0 is    *)
(*    10, a penalty of 0.2 is 2).  The rounding error of binary floating   *)
(*    point (below 1e-15 on every value here) is not modelled.             *)
(*  - A Python exception is a result tagged "raise".                       *)
(***************************************************************************)
EXTENDS Integers, Sequences, FiniteSets, TLC

(***************************************************************************)
(* Bounds of the model                                                     *)
(***************************************************************************)
\* longest entity list handed to the merger
MaxEntities == 3
\* largest character offset of an entity span
MaxPos == 3
\* most keys in an extracted_data dict
MaxFields == 4
\* most lines in a text handed to process_tax_form_text
MaxLines == 2
\* most files the glob of process_batch finds
MaxFiles == 2

VARIABLES
    pc,              \* "call": the inputs are chosen; "done": the method returned;
                     \* "raised": it was left by an exception
    input_entities,  \* _merge_overlapping_entities: the list as the caller built it
    entities,        \* the same list object (sorted in place by the call)
    merged,          \* the list the call returned
    form_type,       \* validate_extracted_data: its form_type argument
    extracted_data,  \* its extracted_data argument (the data of a direct call of
                     \* _perform_additional_validations)
    current_year,    \* datetime.now().year during the call
    errors,          \* the errors list when the try block was left
    warnings,        \* the warnings list when the try block was left
    confidence,      \* the local confidence when the try block was left
    validation,      \* the ValidationResult returned
    args,            \* a direct call of _perform_additional_validations: the
                     \* errors, warnings and confidence the caller passed;
                     \* process_tax_form_text: the form_type the caller passed
    text,            \* process_tax_form_text: its text argument (form_type is its
                     \* form_type argument, reassigned by the classification)
    nlp,             \* self.nlp, the spaCy model
    ner_pipeline,    \* self.ner_pipeline, the transformer pipeline
    form_scores,     \* the scores of classify_form_content, None when not called
    envelope,        \* the dict process_tax_form_text returned, or the exception
                     \* that left it
    config,          \* TaxFormProcessor: whether self.efiling_integration is
                     \* set, and self.config['auto_efile']
    files_to_process,\* process_batch: the files the glob found, in loop order
    batch_results,   \* process_batch: its batch_results dict
    db_records,      \* the TaxFormRecords the database holds, in insertion order
    submissions,     \* EFilingIntegration.submissions, in insertion order
    output_files,    \* the result files written to the output directory
    posted,          \* EFilingIntegration: the requests self.provider.session has
                     \* posted, in order
    returned         \* EFilingIntegration: what the last call returned, or the
                     \* exception that left it

vars == <<pc, input_entities, entities, merged, form_type, extracted_data,
          current_year, errors, warnings, confidence, validation, args,
          text, nlp, ner_pipeline, form_scores, envelope,
          config, files_to_process, batch_results, db_records, submissions,
          output_files, posted, returned>>

\* the value of a variable that the operation under check does not use
Unused == "unused"

merge_vars == <<input_entities, entities, merged>>
validate_vars == <<form_type, extracted_data, current_year, errors, warnings,
                   confidence, validation, args>>
process_vars == <<text, nlp, ner_pipeline, form_scores, envelope>>
efiling_vars == <<posted, returned>>
batch_vars == <<config, files_to_process, batch_results, db_records, submissions,
                output_files, efiling_vars>>

\* no TaxFormProcessor takes part in the call
NoBatch ==
    /\ config = Unused /\ files_to_process = Unused /\ batch_results = Unused
    /\ db_records = Unused /\ submissions = Unused /\ output_files = Unused
    /\ posted = Unused /\ returned = Unused

(***************************************************************************)
(* EntityExtraction and the entity merger                                  *)
(***************************************************************************)
\* what an extractor stamps on its entities: the pattern extractor gives 0.95 to
\* every pattern type (two of them here), spaCy gives 0.8 to its labels
Extractors ==
    { [entity_type |-> "ssn",    entity_value |-> "123-45-6789", confidence |-> 95],
      [entity_type |-> "date",   entity_value |-> "23-45-6789",  confidence |-> 95],
      [entity_type |-> "PERSON", entity_value |-> "John Doe",    confidence |-> 80] }

\* dataclass EntityExtraction
EntityExtraction ==
    { [entity_type |-> x.entity_type, entity_value |-> x.entity_value,
       confidence |-> x.confidence, start_pos |-> s, end_pos |-> e] :
        x \in Extractors, s \in 0..MaxPos, e \in 0..MaxPos }

\* every extractor yields a non-empty span (a regex match, a spaCy span)
WellFormed(x) == x.start_pos < x.end_pos

Entities == { x \in EntityExtraction : WellFormed(x) }

\* the lists of at most MaxEntities entities
EntityLists == UNION { [1..n -> Entities] : n \in 0..MaxEntities }

\* list.sort(key=...) is stable: x goes after every element whose key is <= its own
InsertByStart(sorted, x) ==
    LET k == Cardinality({ i \in 1..Len(sorted) : sorted[i].start_pos <= x.start_pos })
    IN  SubSeq(sorted, 1, k) \o <<x>> \o SubSeq(sorted, k + 1, Len(sorted))

RECURSIVE SortedByStart(_)
SortedByStart(s) ==
    IF s = <<>> THEN <<>>
    ELSE InsertByStart(SortedByStart(SubSeq(s, 1, Len(s) - 1)), s[Len(s)])

SortByStartUnsorted(s) == s

\* entities.sort(key=lambda x: x.start_pos)
SortByStart(s) == SortedByStart(s)

OverlapsNever(next_entity, current) == FALSE

\* the overlap test of the sweep
Overlaps(next_entity, current) ==
    /\ next_entity.start_pos <= current.end_pos
    /\ next_entity.end_pos >= current.start_pos

ReplacesCurrentOnTie(next_entity, current) == next_entity.confidence >= current.confidence

ReplacesCurrentNever(next_entity, current) == FALSE

\* if next_entity.confidence > current.confidence: current = next_entity
ReplacesCurrent(next_entity, current) == next_entity.confidence > current.confidence

\* the for loop over entities[1:], then merged.append(current)
RECURSIVE Sweep(_, _, _)
Sweep(rest, current, acc) ==
    IF rest = <<>> THEN Append(acc, current)
    ELSE LET next_entity == Head(rest)
         IN  IF Overlaps(next_entity, current)
             THEN Sweep(Tail(rest),
                        IF ReplacesCurrent(next_entity, current) THEN next_entity ELSE current,
                        acc)
             ELSE Sweep(Tail(rest), next_entity, Append(acc, current))

\* NLPProcessor._merge_overlapping_entities: the returned list
MergeOverlappingEntities(list) ==
    IF list = <<>> THEN list
    ELSE LET sorted == SortByStart(list)
         IN  Sweep(Tail(sorted), Head(sorted), <<>>)

\* the caller's list after the call: sorted in place unless it was empty
ListAfterMerge(list) == IF list = <<>> THEN list ELSE SortByStart(list)

(***************************************************************************)
(* Python values held by extracted_data                                    *)
(***************************************************************************)
Str(chars) == [t |-> "str", s |-> chars]
Num(n) == [t |-> "num", n |-> n]
List(items) == [t |-> "list", items |-> items]
None == [t |-> "none"]

\* bool(value): an empty str, 0, an empty list and None are falsy
Truthy(value) ==
    CASE value.t = "str" -> Len(value.s) > 0
      [] value.t = "num" -> value.n # 0
      [] value.t = "list" -> value.items # <<>>
      [] OTHER -> FALSE

Digits == {"0", "1", "2", "3", "4", "5", "6", "7", "8", "9"}

DigitValue(c) ==
    CASE c = "0" -> 0 [] c = "1" -> 1 [] c = "2" -> 2 [] c = "3" -> 3 [] c = "4" -> 4
      [] c = "5" -> 5 [] c = "6" -> 6 [] c = "7" -> 7 [] c = "8" -> 8 [] c = "9" -> 9

\* the character at offset i - 1 of a str
CharAt(chars, i) == SubSeq(chars, i, i)

AllDigits(chars) == \A i \in 1..Len(chars) : CharAt(chars, i) \in Digits

\* the value of a run of decimal digits
RECURSIVE DecimalValue(_)
DecimalValue(chars) ==
    IF Len(chars) = 0 THEN 0
    ELSE 10 * DecimalValue(SubSeq(chars, 1, Len(chars) - 1))
            + DigitValue(CharAt(chars, Len(chars)))

\* the characters of chars laid out as the pattern says: "d" stands for \d, any
\* other pattern character for itself
HasShape(chars, pattern) ==
    /\ Len(chars) = Len(pattern)
    /\ \A i \in 1..Len(pattern) :
          IF CharAt(pattern, i) = "d" THEN CharAt(chars, i) \in Digits
          ELSE CharAt(chars, i) = CharAt(pattern, i)

\* re.match('^' + pattern + '$', chars): '$' matches at the end of the string and
\* also just before a newline that ends the string
MatchesToEnd(chars, pattern) ==
    \/ HasShape(chars, pattern)
    \/ /\ Len(chars) = Len(pattern) + 1
       /\ CharAt(chars, Len(chars)) = "\n"
       /\ HasShape(SubSeq(chars, 1, Len(pattern)), pattern)

\* \d{3}-\d{2}-\d{4} and \d{2}-\d{7}
SSNPattern == "ddd-dd-dddd"
EINPattern == "dd-ddddddd"

\* re.sub(r'[$,]', '', value)
RECURSIVE StripCurrency(_)
StripCurrency(chars) ==
    IF Len(chars) = 0 THEN chars
    ELSE IF Head(chars) \in {"$", ","} THEN StripCurrency(Tail(chars))
         ELSE Head(chars) \o StripCurrency(Tail(chars))

\* float(chars) on the literals of this model: an optional sign and a run of
\* digits; anything else (letters, the empty string) raises ValueError
ParseFloat(chars) ==
    LET signed == Len(chars) > 0 /\ Head(chars) \in {"-", "+"}
        body == IF signed THEN Tail(chars) ELSE chars
    IN  IF Len(body) = 0 \/ ~AllDigits(body)
        THEN [ok |-> FALSE, value |-> 0]
        ELSE [ok |-> TRUE,
              value |-> IF signed /\ Head(chars) = "-"
                        THEN 0 - DecimalValue(body) ELSE DecimalValue(body)]

(***************************************************************************)
(* datetime.strptime for the three formats of the date check               *)
(***************************************************************************)
SeparatorPositions(chars, sep) == { i \in 1..Len(chars) : CharAt(chars, i) = sep }

Smallest(S) == CHOOSE x \in S : \A y \in S : x <= y
Largest(S) == CHOOSE x \in S : \A y \in S : x >= y

IsLeapYear(y) == (y % 4 = 0 /\ y % 100 # 0) \/ y % 400 = 0

DaysInMonth(m, y) ==
    IF m \in {4, 6, 9, 11} THEN 30
    ELSE IF m = 2 THEN (IF IsLeapYear(y) THEN 29 ELSE 28)
    ELSE 31

\* a calendar date that datetime accepts, from its digit runs
DateFromParts(month, day, year) ==
    IF /\ Len(month) \in {1, 2} /\ Len(day) \in {1, 2} /\ Len(year) = 4
       /\ AllDigits(month) /\ AllDigits(day) /\ AllDigits(year)
       /\ DecimalValue(month) \in 1..12
       /\ DecimalValue(year) >= 1
       /\ DecimalValue(day) \in 1..DaysInMonth(DecimalValue(month), DecimalValue(year))
    THEN [ok |-> TRUE, year |-> DecimalValue(year)]
    ELSE [ok |-> FALSE, year |-> 0]

\* the three digit runs around exactly two separators, or <<>>
SplitDate(chars, sep) ==
    LET P == SeparatorPositions(chars, sep)
    IN  IF Cardinality(P) # 2 THEN <<>>
        ELSE << SubSeq(chars, 1, Smallest(P) - 1),
                SubSeq(chars, Smallest(P) + 1, Largest(P) - 1),
                SubSeq(chars, Largest(P) + 1, Len(chars)) >>

\* the formats tried, in order: '%m/%d/%Y', '%m-%d-%Y', '%Y-%m-%d'
DateFormats == << [sep |-> "/", year_first |-> FALSE],
                  [sep |-> "-", year_first |-> FALSE],
                  [sep |-> "-", year_first |-> TRUE] >>

\* datetime.strptime(date_str, fmt); ok = FALSE stands for ValueError
Strptime(chars, fmt) ==
    LET parts == SplitDate(chars, fmt.sep)
    IN  IF parts = <<>> THEN [ok |-> FALSE, year |-> 0]
        ELSE IF fmt.year_first THEN DateFromParts(parts[2], parts[3], parts[1])
        ELSE DateFromParts(parts[1], parts[2], parts[3])

(***************************************************************************)
(* The rule tables of NLPProcessor.__init__ and the messages               *)
(***************************************************************************)
\* self.form_field_mappings; validation_rules in the dict's insertion order
FormFieldMappings ==
    [ f1040 |->
        [ required_fields |-> <<"name", "ssn", "filing_status", "total_income">>,
          validation_rules |->
            << [field |-> "total_income", min |-> 0, max |-> 10000000],
               [field |-> "federal_tax_withheld", min |-> 0, max |-> 5000000] >> ],
      W2 |->
        [ required_fields |-> <<"employee_name", "employee_ssn", "employer_ein", "wages">>,
          validation_rules |->
            << [field |-> "wages", min |-> 0, max |-> 5000000],
               [field |-> "federal_tax_withheld", min |-> 0, max |-> 2000000] >> ] ]

HasRuleSetAlways(ft) == TRUE

\* form_type in self.form_field_mappings
HasRuleSet(ft) == ft \in {"1040", "W2"}

\* self.form_field_mappings[form_type]
FormConfig(ft) == IF ft = "1040" THEN FormFieldMappings.f1040 ELSE FormFieldMappings.W2

\* invalid_ssns
InvalidSSNs == {"000-00-0000", "123-45-6789", "111-11-1111"}

\* date_fields
DateFields == <<"date_of_birth", "hire_date", "termination_date">>

\* an entry of errors or warnings: the message and the field it names
Message(kind, field) == [kind |-> kind, field |-> field]

\* confidence = 1.0 and the penalties, in tenths
FullConfidence == 10
RequiredPenalty == 2
CoercionPenalty == 1
BelowMinPenalty == 3
AboveMaxPenalty == 1
SSNFormatPenalty == 3
PlaceholderPenalty == 2
EINFormatPenalty == 3
FutureDatePenalty == 1
OldDatePenalty == 1
UnparsedDatePenalty == 1

(***************************************************************************)
(* NLPProcessor.validate_extracted_data                                    *)
(***************************************************************************)
\* the locals of a validation in progress; raised: an exception is propagating
Locals(errs, warns, conf, raised) ==
    [errors |-> errs, warnings |-> warns, confidence |-> conf, raised |-> raised]

AddError(st, kind, field, penalty) ==
    [st EXCEPT !.errors = Append(@, Message(kind, field)), !.confidence = @ - penalty]

AddWarning(st, kind, field, penalty) ==
    [st EXCEPT !.warnings = Append(@, Message(kind, field)), !.confidence = @ - penalty]

Raise(st) == [st EXCEPT !.raised = TRUE]

IsMissingWhenAbsent(data, field) == field \notin DOMAIN data

IsMissingUnlessNumber(data, field) ==
    field \notin DOMAIN data \/ (data[field].t # "num" /\ ~Truthy(data[field]))

\* required_field not in extracted_data or not extracted_data[required_field]
IsMissing(data, field) == field \notin DOMAIN data \/ ~Truthy(data[field])

\* for required_field in form_config['required_fields']
RECURSIVE CheckRequiredFields(_, _, _)
CheckRequiredFields(fields, data, st) ==
    IF fields = <<>> THEN st
    ELSE CheckRequiredFields(Tail(fields), data,
            IF IsMissing(data, Head(fields))
            THEN AddError(st, "Required field is missing", Head(fields), RequiredPenalty)
            ELSE st)

\* the body of the loop over validation_rules, for one (field, rules) item
CheckRule(rule, data, st) ==
    IF rule.field \notin DOMAIN data THEN st
    ELSE LET value == data[rule.field]
             parsed == IF value.t = "str" THEN ParseFloat(StripCurrency(value.s))
                       ELSE [ok |-> value.t = "num", value |-> IF value.t = "num" THEN value.n ELSE 0]
         IN  IF value.t = "str" /\ ~parsed.ok
             THEN AddWarning(st, "Could not validate numeric field", rule.field, CoercionPenalty)
             ELSE IF ~parsed.ok
             THEN Raise(st)    \* a list or None compared with a number: TypeError
             ELSE LET checked_min ==
                          IF parsed.value < rule.min
                          THEN AddError(st, "below minimum", rule.field, BelowMinPenalty)
                          ELSE st
                  IN  IF parsed.value > rule.max
                      THEN AddWarning(checked_min, "seems unusually high", rule.field, AboveMaxPenalty)
                      ELSE checked_min

\* for field, rules in form_config['validation_rules'].items()
RECURSIVE CheckRules(_, _, _)
CheckRules(rules, data, st) ==
    IF rules = <<>> \/ st.raised THEN st
    ELSE CheckRules(Tail(rules), data, CheckRule(Head(rules), data, st))

CheckSSNPlaceholderAsError(data, st) ==
    IF "ssn" \notin DOMAIN data THEN st
    ELSE LET ssn == data["ssn"]
         IN  IF ssn.t # "str" THEN Raise(st)
             ELSE IF ~MatchesToEnd(ssn.s, SSNPattern) \/ ssn.s \in InvalidSSNs
             THEN AddError(st, "Invalid SSN format", "ssn", SSNFormatPenalty)
             ELSE st

\* the SSN check of _perform_additional_validations
CheckSSN(data, st) ==
    IF "ssn" \notin DOMAIN data THEN st
    ELSE LET ssn == data["ssn"]
         IN  IF ssn.t # "str" THEN Raise(st)    \* re.match on a non-string: TypeError
             ELSE IF ~MatchesToEnd(ssn.s, SSNPattern)
             THEN AddError(st, "Invalid SSN format", "ssn", SSNFormatPenalty)
             ELSE IF ssn.s \in InvalidSSNs
             THEN AddWarning(st, "SSN appears to be a placeholder", "ssn", PlaceholderPenalty)
             ELSE st

\* the EIN check
CheckEIN(data, st) ==
    IF "ein" \notin DOMAIN data THEN st
    ELSE LET ein == data["ein"]
         IN  IF ein.t # "str" THEN Raise(st)
             ELSE IF ~MatchesToEnd(ein.s, EINPattern)
             THEN AddError(st, "Invalid EIN format", "ein", EINFormatPenalty)
             ELSE st

\* for fmt in [...]: try strptime; the first format that parses decides, the
\* for-else branch warns when none does
RECURSIVE TryFormats(_, _, _, _, _)
TryFormats(formats, field, chars, year_now, st) ==
    IF formats = <<>>
    THEN AddWarning(st, "Could not parse date", field, UnparsedDatePenalty)
    ELSE LET parsed_date == Strptime(chars, Head(formats))
         IN  IF ~parsed_date.ok
             THEN TryFormats(Tail(formats), field, chars, year_now, st)
             ELSE IF parsed_date.year > year_now
             THEN AddWarning(st, "Future date", field, FutureDatePenalty)
             ELSE IF parsed_date.year < 1900
             THEN AddWarning(st, "Very old date", field, OldDatePenalty)
             ELSE st

\* the date check of one field; a non-string raises TypeError inside the outer
\* try, whose "except Exception: pass" drops it
CheckDate(field, data, year_now, st) ==
    IF field \notin DOMAIN data THEN st
    ELSE IF data[field].t # "str" THEN st
    ELSE TryFormats(DateFormats, field, data[field].s, year_now, st)

RECURSIVE CheckDates(_, _, _, _)
CheckDates(fields, data, year_now, st) ==
    IF fields = <<>> THEN st
    ELSE CheckDates(Tail(fields), data, year_now, CheckDate(Head(fields), data, year_now, st))

\* NLPProcessor._perform_additional_validations(data, errors, warnings, confidence):
\* errors and warnings are the caller's lists, appended to in place; confidence
\* is the value returned, unless the call raises
PerformAdditionalValidations(data, errs, warns, conf, year_now) ==
    LET st0 == Locals(errs, warns, conf, FALSE)
        st1 == CheckSSN(data, st0)
        st2 == IF st1.raised THEN st1 ELSE CheckEIN(data, st1)
    IN  IF st2.raised THEN st2 ELSE CheckDates(DateFields, data, year_now, st2)

\* the try block up to the return statement: the locals when it is left
ValidateBody(ft, data, year_now) ==
    LET st0 == Locals(<<>>, <<>>, FullConfidence, FALSE)
    IN  IF ~HasRuleSet(ft) THEN st0
        ELSE LET form_config == FormConfig(ft)
                 st1 == CheckRequiredFields(form_config.required_fields, data, st0)
                 st2 == CheckRules(form_config.validation_rules, data, st1)
                 st3 == PerformAdditionalValidations(data, st2.errors, st2.warnings,
                                                     st2.confidence, year_now)
             IN  IF st2.raised THEN st2
                 ELSE IF st3.raised
                 THEN \* the lists were appended to in place, confidence was not assigned
                      Locals(st3.errors, st3.warnings, st2.confidence, TRUE)
                 ELSE st3

Min(a, b) == IF a < b THEN a ELSE b
Max(a, b) == IF a > b THEN a ELSE b

ClampNot(c) == c

\* max(0.0, min(1.0, confidence))
Clamp(c) == Max(0, Min(FullConfidence, c))

IsValidWithoutWarnings(errs, warns) == Len(errs) = 0 /\ Len(warns) = 0

\* is_valid = len(errors) == 0
IsValid(errs, warns) == Len(errs) = 0

\* dataclass ValidationResult
ValidationResult(is_valid, conf, errs, warns) ==
    [is_valid |-> is_valid, confidence |-> conf, errors |-> errs, warnings |-> warns]

\* what a call hands back: a value, or an exception that leaves the method
Returns(value) == [raised |-> FALSE, value |-> value]
Raises == [raised |-> TRUE, value |-> "exception"]

HandleExceptionReraise(st) == Raises

\* except Exception as e: return ValidationResult(False, 0.0, [...], [])
HandleException(st) ==
    Returns(ValidationResult(FALSE, 0, <<Message("Validation error", "")>>, <<>>))

\* NLPProcessor.validate_extracted_data(form_type, extracted_data)
ValidateExtractedData(ft, data, year_now) ==
    LET st == ValidateBody(ft, data, year_now)
    IN  IF st.raised THEN HandleException(st)
        ELSE Returns(ValidationResult(IsValid(st.errors, st.warnings), Clamp(st.confidence),
                                      st.errors, st.warnings))

(***************************************************************************)
(* Text scanning: str.lower, the in operator and the regular expressions   *)
(* of tax_patterns                                                         *)
(***************************************************************************)
LowerLetters == "abcdefghijklmnopqrstuvwxyz"
UpperLetters == "ABCDEFGHIJKLMNOPQRSTUVWXYZ"

CharsOf(chars) == { CharAt(chars, i) : i \in 1..Len(chars) }

Letters == CharsOf(LowerLetters) \cup CharsOf(UpperLetters)

\* \w on ASCII text
WordChars == Letters \cup Digits \cup {"_"}

LowerChar(c) ==
    IF c \in CharsOf(UpperLetters)
    THEN CharAt(LowerLetters, CHOOSE i \in 1..Len(UpperLetters) : CharAt(UpperLetters, i) = c)
    ELSE c

\* text.lower(), one half of the text after the other
RECURSIVE Lower(_)
Lower(chars) ==
    IF Len(chars) = 0 THEN chars
    ELSE IF Len(chars) = 1 THEN LowerChar(chars)
    ELSE LET half == Len(chars) \div 2
         IN  Lower(SubSeq(chars, 1, half)) \o Lower(SubSeq(chars, half + 1, Len(chars)))

\* keyword in text
Contains(chars, keyword) ==
    \E i \in 1..(Len(chars) - Len(keyword) + 1) :
        SubSeq(chars, i, i + Len(keyword) - 1) = keyword

\* the character at index i, "" outside the text
At(chars, i) == IF i >= 1 /\ i <= Len(chars) THEN CharAt(chars, i) ELSE ""

\* \b between index i and index i + 1
Boundary(chars, i) == (At(chars, i) \in WordChars) # (At(chars, i + 1) \in WordChars)

\* the length of the longest run of characters of class from index i on
RECURSIVE RunLength(_, _, _)
RunLength(chars, i, class) ==
    IF At(chars, i) \in class THEN 1 + RunLength(chars, i + 1, class) ELSE 0

\* a fixed layout between two \b
BoundedShape(chars, i, pattern) ==
    /\ i + Len(pattern) - 1 <= Len(chars)
    /\ HasShape(SubSeq(chars, i, i + Len(pattern) - 1), pattern)
    /\ Boundary(chars, i - 1)
    /\ Boundary(chars, i + Len(pattern) - 1)

FixedLength(chars, i, pattern) ==
    IF BoundedShape(chars, i, pattern) THEN Len(pattern) ELSE 0

\* \b\d{5}(?:-\d{4})?\b: the optional group is tried first
ZipLength(chars, i) ==
    IF BoundedShape(chars, i, "ddddd-dddd") THEN 10
    ELSE FixedLength(chars, i, "ddddd")

\* \$[0-9,]+(?:\.\d{2})?
CurrencyLength(chars, i) ==
    LET run == RunLength(chars, i + 1, Digits \cup {","})
        after == i + 1 + run
    IN  IF At(chars, i) # "$" \/ run = 0 THEN 0
        ELSE IF /\ At(chars, after) = "."
                /\ At(chars, after + 1) \in Digits
                /\ At(chars, after + 2) \in Digits
             THEN 1 + run + 3
             ELSE 1 + run

\* \d+(?:\.\d+)?%
PercentageLength(chars, i) ==
    LET run == RunLength(chars, i, Digits)
        fraction == RunLength(chars, i + run + 1, Digits)
    IN  IF run = 0 THEN 0
        ELSE IF /\ At(chars, i + run) = "."
                /\ fraction > 0
                /\ At(chars, i + run + 1 + fraction) = "%"
             THEN run + 1 + fraction + 1
             ELSE IF At(chars, i + run) = "%" THEN run + 1 ELSE 0

DateSeparators == {"/", "-"}

\* \d{1,2}[/-]\d{1,2}[/-]\d{4}: two digits are tried before one
DateLength(chars, i) ==
    LET Fits(a, b) ==
            /\ \A k \in 0..(a - 1) : At(chars, i + k) \in Digits
            /\ At(chars, i + a) \in DateSeparators
            /\ \A k \in 1..b : At(chars, i + a + k) \in Digits
            /\ At(chars, i + a + b + 1) \in DateSeparators
            /\ \A k \in 2..5 : At(chars, i + a + b + k) \in Digits
    IN  IF Fits(2, 2) THEN 10
        ELSE IF Fits(2, 1) THEN 9
        ELSE IF Fits(1, 2) THEN 9
        ELSE IF Fits(1, 1) THEN 8
        ELSE 0

LocalChars == Letters \cup Digits \cup {".", "_", "%", "+", "-"}
DomainChars == Letters \cup Digits \cup {".", "-"}
TldChars == Letters \cup {"|"}

\* \b[A-Za-z0-9._%+-]+@[A-Za-z0-9.-]+\.[A-Z|a-z]{2,}\b: every quantifier is greedy,
\* so the last dot of the domain run that a suffix can follow is taken, and
\* then the longest suffix that ends on a \b
EmailLength(chars, i) ==
    LET local == RunLength(chars, i, LocalChars)
        at == i + local
        domain == RunLength(chars, at + 1, DomainChars)
        Ends(dot) == { e \in (dot + 2)..(dot + RunLength(chars, dot + 1, TldChars)) :
                          Boundary(chars, e) }
        dots == { d \in (at + 2)..(at + domain) : At(chars, d) = "." /\ Ends(d) # {} }
    IN  IF local = 0 \/ At(chars, at) # "@" \/ ~Boundary(chars, i - 1) \/ dots = {}
        THEN 0
        ELSE Largest(Ends(Largest(dots))) - i + 1

\* self.tax_patterns, in the order of the dict
TaxPatterns == <<"ssn", "ein", "phone", "email", "currency", "percentage", "date", "zip_code">>

\* the length of the match of a pattern that starts at index i, 0 when none does
MatchLength(entity_type, chars, i) ==
    CASE entity_type = "ssn" -> FixedLength(chars, i, "ddd-dd-dddd")
      [] entity_type = "ein" -> FixedLength(chars, i, "dd-ddddddd")
      [] entity_type = "phone" -> FixedLength(chars, i, "ddd-ddd-dddd")
      [] entity_type = "email" -> EmailLength(chars, i)
      [] entity_type = "currency" -> CurrencyLength(chars, i)
      [] entity_type = "percentage" -> PercentageLength(chars, i)
      [] entity_type = "date" -> DateLength(chars, i)
      [] entity_type = "zip_code" -> ZipLength(chars, i)

\* re.finditer: the matches from left to right, each search resuming where the
\* last match ended; a match is the pair of its first and last index
RECURSIVE MatchesAmong(_, _, _)
MatchesAmong(entity_type, chars, starts) ==
    IF starts = {} THEN <<>>
    ELSE LET first == Smallest(starts)
             last == first + MatchLength(entity_type, chars, first) - 1
         IN  <<[first |-> first, last |-> last]>>
                 \o MatchesAmong(entity_type, chars, { j \in starts : j > last })

FindIter(entity_type, chars, i) ==
    MatchesAmong(entity_type, chars,
                 { j \in i..Len(chars) : MatchLength(entity_type, chars, j) > 0 })

(***************************************************************************)
(* The extractors and NLPProcessor.extract_entities                        *)
(***************************************************************************)
PatternConfidence == 95
SpacyConfidence == 80

EntityOfMatchStartingAtEnd(entity_type, chars, match, score) ==
    [entity_type |-> entity_type,
     entity_value |-> SubSeq(chars, match.first, match.last),
     confidence |-> score,
     start_pos |-> match.last,
     end_pos |-> match.last]

\* EntityExtraction(entity_type, entity_value, confidence, start_pos, end_pos) of a
\* match: start_pos is the offset of its first character, end_pos the offset
\* after its last one
EntityOfMatch(entity_type, chars, match, score) ==
    [entity_type |-> entity_type,
     entity_value |-> SubSeq(chars, match.first, match.last),
     confidence |-> score,
     start_pos |-> match.first - 1,
     end_pos |-> match.last]

EntitiesOfMatches(entity_type, chars, matches, score) ==
    [k \in 1..Len(matches) |-> EntityOfMatch(entity_type, chars, matches[k], score)]

\* NLPProcessor._extract_pattern_entities: every pattern in turn
RECURSIVE PatternEntitiesFrom(_, _)
PatternEntitiesFrom(patterns, chars) ==
    IF patterns = <<>> THEN <<>>
    ELSE EntitiesOfMatches(Head(patterns), chars, FindIter(Head(patterns), chars, 1),
                           PatternConfidence)
            \o PatternEntitiesFrom(Tail(patterns), chars)

ExtractPatternEntities(chars) == PatternEntitiesFrom(TaxPatterns, chars)

\* the occurrences of a literal, left to right and without overlap
RECURSIVE Occurrences(_, _, _)
Occurrences(chars, literal, i) ==
    LET starts == { j \in i..(Len(chars) - Len(literal) + 1) :
                      SubSeq(chars, j, j + Len(literal) - 1) = literal }
    IN  IF starts = {} THEN <<>>
        ELSE LET first == Smallest(starts)
             IN  <<[first |-> first, last |-> first + Len(literal) - 1]>>
                     \o Occurrences(chars, literal, first + Len(literal))

\* A collaborator that failed to load is None; one that loaded either raises
\* when it is called or answers.  An answering spaCy model labels every
\* "John Doe" a PERSON and every currency amount MONEY; an answering transformer
\* pipeline labels every SSN-shaped token MISC with the score it was built with.
Raising == [t |-> "raising"]
Answering(score) == [t |-> "answering", score |-> score]

\* NLPProcessor._extract_spacy_entities
ExtractSpacyEntities(chars) ==
    EntitiesOfMatches("PERSON", chars, Occurrences(chars, "John Doe", 1), SpacyConfidence)
        \o EntitiesOfMatches("MONEY", chars, FindIter("currency", chars, 1), SpacyConfidence)

\* NLPProcessor._extract_transformer_entities: a failure of the pipeline is
\* caught there and leaves the list empty
ExtractTransformerEntities(chars, pipeline) ==
    IF pipeline.t = "raising" THEN <<>>
    ELSE EntitiesOfMatches("MISC", chars, FindIter("ssn", chars, 1), pipeline.score)

\* NLPProcessor.extract_entities: any exception (a text that is not a str, a
\* spaCy failure) is caught and gives []
ExtractEntities(text_value, nlp_model, pipeline) ==
    IF text_value.t # "str" THEN <<>>
    ELSE IF nlp_model.t = "raising" THEN <<>>
    ELSE MergeOverlappingEntities(
            ExtractPatternEntities(text_value.s)
               \o (IF nlp_model.t = "none" THEN <<>> ELSE ExtractSpacyEntities(text_value.s))
               \o (IF pipeline.t = "none" THEN <<>>
                   ELSE ExtractTransformerEntities(text_value.s, pipeline)))

(***************************************************************************)
(* NLPProcessor.classify_form_content                                      *)
(***************************************************************************)
\* form_keywords, in the order of the dict
FormKeywords ==
    << [form_type |-> "1040",
        keywords |-> <<"individual income tax return", "filing status",
                       "standard deduction", "taxable income">>],
       [form_type |-> "W2",
        keywords |-> <<"wage and tax statement", "employer", "employee",
                       "federal income tax withheld">>],
       [form_type |-> "1099",
        keywords |-> <<"miscellaneous income", "nonemployee compensation", "payer",
                       "recipient">>],
       [form_type |-> "Schedule C",
        keywords |-> <<"profit or loss", "business income", "business expenses",
                       "net profit">>],
       [form_type |-> "941",
        keywords |-> <<"quarterly return", "employer", "payroll tax", "employment tax">>],
       [form_type |-> "1120",
        keywords |-> <<"corporation income tax", "corporate tax", "c corporation",
                       "net income">>] >>

KeywordOccurrences(text_lower, keywords) ==
    Cardinality({ <<k, i>> \in (1..Len(keywords)) \X (1..Len(text_lower)) :
                    /\ i + Len(keywords[k]) - 1 <= Len(text_lower)
                    /\ SubSeq(text_lower, i, i + Len(keywords[k]) - 1) = keywords[k] })

\* the keywords of the list found in the lowered text
KeywordHits(text_lower, keywords) ==
    Cardinality({ k \in 1..Len(keywords) : Contains(text_lower, keywords[k]) })

\* score / len(keywords), in hundredths
Normalize(score, keywords) == (score * 100) \div Len(keywords)

\* the scores dict: one entry per form type, in the order of form_keywords
ClassifyFormContent(chars) ==
    LET text_lower == Lower(chars)
    IN  [k \in 1..Len(FormKeywords) |->
            [form_type |-> FormKeywords[k].form_type,
             score |-> Normalize(KeywordHits(text_lower, FormKeywords[k].keywords),
                                 FormKeywords[k].keywords)]]

MaxKeyLast(scores) ==
    LET best == Largest({ k \in 1..Len(scores) :
                            \A j \in 1..Len(scores) : scores[j].score <= scores[k].score })
    IN  scores[best].form_type

\* max(form_scores, key=form_scores.get): the first key, in dict order, whose
\* score no other exceeds
MaxKey(scores) ==
    LET best == Smallest({ k \in 1..Len(scores) :
                             \A j \in 1..Len(scores) : scores[j].score <= scores[k].score })
    IN  scores[best].form_type

\* max(form_scores, key=form_scores.get) if form_scores else 'Unknown'
SelectFormType(scores) ==
    IF scores # <<>> THEN MaxKey(scores) ELSE "Unknown"

(***************************************************************************)
(* NLPProcessor.extract_financial_amounts; an amount is kept in hundredths *)
(***************************************************************************)
\* amount_str.replace(',', '')
RECURSIVE RemoveCommas(_)
RemoveCommas(chars) ==
    IF Len(chars) = 0 THEN chars
    ELSE IF Len(chars) = 1 THEN (IF chars = "," THEN "" ELSE chars)
    ELSE LET half == Len(chars) \div 2
         IN  RemoveCommas(SubSeq(chars, 1, half))
                \o RemoveCommas(SubSeq(chars, half + 1, Len(chars)))

FloatOfAmountOrZero(amount_str) ==
    LET whole == RunLength(amount_str, 1, Digits)
    IN  [raised |-> FALSE,
         value |-> 100 * DecimalValue(SubSeq(amount_str, 1, whole))
                     + DecimalValue(SubSeq(amount_str, whole + 2, Len(amount_str)))]

\* float(amount_str) of what the currency pattern can capture: digits, then
\* perhaps a dot and two digits; a str without any digit raises ValueError
FloatOfAmount(amount_str) ==
    LET whole == RunLength(amount_str, 1, Digits)
        cents == SubSeq(amount_str, whole + 2, Len(amount_str))
    IN  IF Len(amount_str) = 0 THEN [raised |-> TRUE, value |-> "ValueError"]
        ELSE [raised |-> FALSE,
              value |-> 100 * DecimalValue(SubSeq(amount_str, 1, whole))
                          + DecimalValue(cents)]

DigitChar(n) == CharAt("0123456789", n + 1)

RECURSIVE DecimalDigits(_)
DecimalDigits(n) ==
    IF n < 10 THEN DigitChar(n) ELSE DecimalDigits(n \div 10) \o DigitChar(n % 10)

\* the ',' grouping of the format specification
RECURSIVE Grouped(_)
Grouped(n) ==
    IF n < 1000 THEN DecimalDigits(n)
    ELSE Grouped(n \div 1000) \o "," \o DigitChar((n \div 100) % 10)
            \o DigitChar((n \div 10) % 10) \o DigitChar(n % 10)

\* f"${amount:,.2f}"
FormattedAmount(amount) ==
    "$" \o Grouped(amount \div 100) \o "." \o DigitChar((amount \div 10) % 10)
        \o DigitChar(amount % 10)

Whitespace == {" ", "\n", "\t", "\r"}

\* str.strip()
Strip(chars) ==
    LET kept == { i \in 1..Len(chars) : CharAt(chars, i) \notin Whitespace }
    IN  IF kept = {} THEN "" ELSE SubSeq(chars, Smallest(kept), Largest(kept))

ContextWidth == 50

\* the entry appended for one match, or nothing when float() raises ValueError
AmountEntries(chars, match) ==
    LET amount_str == RemoveCommas(SubSeq(chars, match.first + 1, match.last))
        amount == FloatOfAmount(amount_str)
        start == Max(0, (match.first - 1) - ContextWidth)
        end == Min(Len(chars), match.last + ContextWidth)
    IN  IF amount.raised THEN <<>>
        ELSE <<[amount |-> amount.value,
                formatted_amount |-> FormattedAmount(amount.value),
                context |-> Strip(SubSeq(chars, start + 1, end)),
                position |-> match.first - 1]>>

RECURSIVE AmountsOf(_, _)
AmountsOf(chars, matches) ==
    IF matches = <<>> THEN <<>>
    ELSE AmountEntries(chars, Head(matches)) \o AmountsOf(chars, Tail(matches))

ExtractFinancialAmounts(chars) == AmountsOf(chars, FindIter("currency", chars, 1))

(***************************************************************************)
(* NLPProcessor.process_tax_form_text                                      *)
(***************************************************************************)
AppendValueOverwriting(structured_data, entity) ==
    [k \in DOMAIN structured_data \cup {entity.entity_type} |->
        IF k = entity.entity_type THEN List(<<entity.entity_value>>) ELSE structured_data[k]]

\* structured_data[entity.entity_type].append(entity.entity_value), the list
\* being created at the first entity of the type
AppendValue(structured_data, entity) ==
    LET key == entity.entity_type
        old == IF key \in DOMAIN structured_data THEN structured_data[key].items ELSE <<>>
    IN  [k \in DOMAIN structured_data \cup {key} |->
            IF k = key THEN List(Append(old, entity.entity_value)) ELSE structured_data[k]]

RECURSIVE GroupByType(_, _)
GroupByType(structured_data, list) ==
    IF list = <<>> THEN structured_data
    ELSE GroupByType(AppendValue(structured_data, Head(list)), Tail(list))

\* an exception object, by the name of its class
Exception(name) == [t |-> "exception", name |-> name]

\* The whole method.  text.lower() of the classifier and re.finditer of the
\* amount extraction raise on a text that is not a str, and the except clause
\* raises the exception again.
ProcessTaxFormText(text_value, hint, nlp_model, pipeline, year_now) ==
    LET found == ExtractEntities(text_value, nlp_model, pipeline)
        classify == ~Truthy(hint)
    IN  IF text_value.t # "str"
        THEN [raised |-> TRUE,
              value |-> IF classify THEN "AttributeError" ELSE "TypeError",
              form_scores |-> None, form_type |-> hint]
        ELSE LET scores == IF classify THEN ClassifyFormContent(text_value.s) ELSE None
                 selected == IF classify THEN SelectFormType(scores) ELSE hint.s
                 structured_data == GroupByType(<<>>, found)
                 validation_result == ValidateExtractedData(selected, structured_data, year_now)
             IN  IF validation_result.raised
                 THEN [raised |-> TRUE, value |-> "exception",
                       form_scores |-> scores, form_type |-> Str(selected)]
                 ELSE [raised |-> FALSE,
                       value |-> [form_type |-> selected,
                                  entities |-> found,
                                  structured_data |-> structured_data,
                                  financial_amounts |-> ExtractFinancialAmounts(text_value.s),
                                  validation |-> validation_result.value,
                                  processing_timestamp |-> year_now],
                       form_scores |-> scores, form_type |-> Str(selected)]

(***************************************************************************)
(* The inputs of the model                                                 *)
(***************************************************************************)
PlainValues == { Str(""), Str("John Doe") }

IncomeValues ==
    { Str("$50,000"), Str("-5"), Str("abc"), Str("20000000"), Str("0"),
      Num(0), Num(0 - 1), Num(50000), Num(20000000), List(<<"$50,000">>) }

WagesValues == { Str("$50,000"), Str("-5"), Num(6000000), List(<<"$50,000">>) }

WithheldValues == { Str("-5"), Str("abc"), Num(3000000) }

SSNValues ==
    { Str("987-65-4321"), Str("123-45-6789"), Str("123-456-789"),
      Str("987-65-4321\n"), List(<<"123-45-6789">>), Num(123456789) }

EINValues == { Str("12-3456789"), Str("123456789"), List(<<"12-3456789">>) }

DateValues ==
    { Str("01/15/1990"), Str("1990-01-15"), Str("01/15/2999"), Str("01-15-1850"),
      Str("Jan 15"), None }

HireDateValues == { Str("01/15/1990"), Str("01/15/2999"), None }

TerminationDateValues == { Str("1990-01-15"), Str("01-15-1850"), Str("02/30/1990") }

\* the values the model gives to a key of extracted_data
ValuesFor(key) ==
    CASE key = "total_income" -> IncomeValues
      [] key = "wages" -> WagesValues
      [] key = "federal_tax_withheld" -> WithheldValues
      [] key = "ssn" -> SSNValues
      [] key = "ein" -> EINValues
      [] key = "date_of_birth" -> DateValues
      [] key = "hire_date" -> HireDateValues
      [] key = "termination_date" -> TerminationDateValues
      [] OTHER -> PlainValues

SeqToSet(q) == { q[i] : i \in 1..Len(q) }

\* the keys validate_extracted_data looks up for a form type; with no rule set
\* it looks up none, and the model offers it the keys of a 1040
KeysRead(ft) ==
    LET form_config == IF ft = "W2" THEN FormFieldMappings.W2 ELSE FormFieldMappings.f1040
    IN  SeqToSet(form_config.required_fields)
          \cup { form_config.validation_rules[i].field :
                    i \in 1..Len(form_config.validation_rules) }
          \cup {"ssn", "ein"} \cup SeqToSet(DateFields)

\* the dicts with exactly the keys K
RECURSIVE DictsOver(_)
DictsOver(K) ==
    IF K = {} THEN { <<>> }
    ELSE LET k == CHOOSE x \in K : TRUE
             rest == DictsOver(K \ {k})
         IN  { [x \in K |-> IF x = k THEN v ELSE d[x]] : d \in rest, v \in ValuesFor(k) }

FormTypes == {"1040", "W2", "1099", "Unknown"}

CurrentYears == {2026}

\* the lines a text of the model is made of
Fragments ==
    { "hello world", "Name: John Doe", "SSN: 123-45-6789", "Filing Status: Single",
      "Total income: $75,000.00, Tax withheld: $8,500", "Employer EIN 12-3456789 $,",
      "nonemployee compensation", "a.b@x.org 555-123-4567 90210-1234 12.5% 01/15/2027" }

\* the lines joined by newlines
RECURSIVE JoinLines(_)
JoinLines(lines) ==
    IF lines = <<>> THEN ""
    ELSE IF Len(lines) = 1 THEN Head(lines)
    ELSE Head(lines) \o "\n" \o JoinLines(Tail(lines))

\* a complete 1040 as the OCR step delivers it
SampleReturn ==
    JoinLines(<<"Form 1040", "Name: John Doe", "SSN: 123-45-6789",
                "Filing Status: Single", "Total Income: $50,000">>)

Texts ==
    { JoinLines(lines) : lines \in UNION { [1..n -> Fragments] : n \in 0..MaxLines } }
        \cup {SampleReturn}

\* the text argument: a str, or None
TextValues == {None} \cup { Str(t) : t \in Texts }

\* the form_type argument: absent (None), empty, or a hint
Hints == {None, Str(""), Str("W2")}

\* self.nlp and self.ner_pipeline as __init__ left them; the pipeline is not
\* reached when the spaCy model raises
Collaborators ==
    { [nlp |-> None, ner_pipeline |-> None],
      [nlp |-> Raising, ner_pipeline |-> None],
      [nlp |-> Answering(SpacyConfidence), ner_pipeline |-> None],
      [nlp |-> Answering(SpacyConfidence), ner_pipeline |-> Raising],
      [nlp |-> Answering(SpacyConfidence), ner_pipeline |-> Answering(99)] }

(***************************************************************************)
(* The calls                                                               *)
(***************************************************************************)
InitMerge ==
    /\ pc = "call"
    /\ NoBatch
    /\ input_entities \in EntityLists
    /\ entities = input_entities
    /\ merged = <<>>
    /\ form_type = Unused /\ extracted_data = Unused /\ current_year = Unused
    /\ errors = Unused /\ warnings = Unused /\ confidence = Unused
    /\ validation = Unused /\ args = Unused
    /\ text = Unused /\ nlp = Unused /\ ner_pipeline = Unused
    /\ form_scores = Unused /\ envelope = Unused

MergeCall ==
    /\ pc = "call"
    /\ entities' = ListAfterMerge(entities)
    /\ merged' = MergeOverlappingEntities(entities)
    /\ pc' = "done"
    /\ UNCHANGED <<input_entities, validate_vars, process_vars, batch_vars>>

NextMerge == MergeCall

SpecMerge == InitMerge /\ [][NextMerge]_vars

InitValidate ==
    /\ pc = "call"
    /\ NoBatch
    /\ form_type \in FormTypes
    /\ \E K \in SUBSET KeysRead(form_type) :
          /\ Cardinality(K) <= MaxFields
          /\ extracted_data \in DictsOver(K)
    /\ current_year \in CurrentYears
    /\ errors = <<>> /\ warnings = <<>> /\ confidence = FullConfidence
    /\ validation = Unused /\ args = Unused
    /\ input_entities = Unused /\ entities = Unused /\ merged = Unused
    /\ text = Unused /\ nlp = Unused /\ ner_pipeline = Unused
    /\ form_scores = Unused /\ envelope = Unused

ValidateCall ==
    /\ pc = "call"
    /\ \E st \in {ValidateBody(form_type, extracted_data, current_year)},
          out \in {ValidateExtractedData(form_type, extracted_data, current_year)} :
           /\ errors' = st.errors
           /\ warnings' = st.warnings
           /\ confidence' = st.confidence
           /\ validation' = out.value
           /\ pc' = IF out.raised THEN "raised" ELSE "done"
    /\ UNCHANGED <<form_type, extracted_data, current_year, args, merge_vars, process_vars,
                   batch_vars>>

NextValidate == ValidateCall

SpecValidate == InitValidate /\ [][NextValidate]_vars

\* the keys _perform_additional_validations looks up
AdditionalKeys == {"ssn", "ein"} \cup SeqToSet(DateFields)

\* what a caller passes: fresh lists and 1.0, or the state after one
\* required-field error
CallerStates ==
    { [errors |-> <<>>, warnings |-> <<>>, confidence |-> FullConfidence],
      [errors |-> <<Message("Required field is missing", "name")>>, warnings |-> <<>>,
       confidence |-> FullConfidence - RequiredPenalty] }

InitAdditional ==
    /\ pc = "call"
    /\ NoBatch
    /\ \E K \in SUBSET AdditionalKeys :
          /\ Cardinality(K) <= MaxFields
          /\ extracted_data \in DictsOver(K)
    /\ current_year \in CurrentYears
    /\ args \in CallerStates
    /\ errors = args.errors /\ warnings = args.warnings /\ confidence = args.confidence
    /\ form_type = Unused /\ validation = Unused
    /\ input_entities = Unused /\ entities = Unused /\ merged = Unused
    /\ text = Unused /\ nlp = Unused /\ ner_pipeline = Unused
    /\ form_scores = Unused /\ envelope = Unused

\* confidence = self._perform_additional_validations(data, errors, warnings, confidence)
AdditionalCall ==
    /\ pc = "call"
    /\ \E st \in {PerformAdditionalValidations(extracted_data, errors, warnings,
                                                 confidence, current_year)} :
           /\ errors' = st.errors
           /\ warnings' = st.warnings
           /\ confidence' = IF st.raised THEN confidence ELSE st.confidence
           /\ pc' = IF st.raised THEN "raised" ELSE "done"
    /\ UNCHANGED <<form_type, extracted_data, current_year, validation, args, merge_vars,
                   process_vars, batch_vars>>

NextAdditional == AdditionalCall

SpecAdditional == InitAdditional /\ [][NextAdditional]_vars

InitProcess ==
    /\ pc = "call"
    /\ NoBatch
    /\ text \in TextValues
    /\ form_type \in Hints
    /\ args = [form_type |-> form_type]
    /\ \E loaded \in Collaborators :
          /\ nlp = loaded.nlp
          /\ ner_pipeline = loaded.ner_pipeline
    /\ current_year \in CurrentYears
    /\ form_scores = None /\ envelope = None
    /\ extracted_data = Unused /\ errors = Unused /\ warnings = Unused
    /\ confidence = Unused /\ validation = Unused
    /\ input_entities = Unused /\ entities = Unused /\ merged = Unused

\* result = processor.process_tax_form_text(text, form_type)
ProcessCall ==
    /\ pc = "call"
    /\ \E out \in {ProcessTaxFormText(text, form_type, nlp, ner_pipeline, current_year)} :
           /\ form_scores' = out.form_scores
           /\ form_type' = out.form_type
           /\ envelope' = IF out.raised THEN Exception(out.value) ELSE out.value
           /\ pc' = IF out.raised THEN "raised" ELSE "done"
    /\ UNCHANGED <<text, nlp, ner_pipeline, current_year, args, extracted_data, errors,
                   warnings, confidence, validation, merge_vars, batch_vars>>

NextProcess == ProcessCall

SpecProcess == InitProcess /\ [][NextProcess]_vars

InitPattern ==
    /\ pc = "call"
    /\ NoBatch
    /\ text \in TextValues
    /\ entities = <<>>
    /\ input_entities = Unused /\ merged = Unused
    /\ form_type = Unused /\ extracted_data = Unused /\ current_year = Unused
    /\ errors = Unused /\ warnings = Unused /\ confidence = Unused
    /\ validation = Unused /\ args = Unused
    /\ nlp = Unused /\ ner_pipeline = Unused
    /\ form_scores = Unused /\ envelope = Unused

\* entities = processor._extract_pattern_entities(text); re.finditer raises
\* TypeError on a text that is not a str
PatternCall ==
    /\ pc = "call"
    /\ IF text.t = "str"
       THEN /\ entities' = ExtractPatternEntities(text.s)
            /\ pc' = "done"
       ELSE /\ entities' = entities
            /\ pc' = "raised"
    /\ UNCHANGED <<input_entities, merged, validate_vars, text, nlp, ner_pipeline,
                   form_scores, envelope, batch_vars>>

NextPattern == PatternCall

SpecPattern == InitPattern /\ [][NextPattern]_vars

(***************************************************************************)
(* TaxFormProcessor (src/src/main.py) and the collaborators it calls       *)
(***************************************************************************)
\* a float that is a quotient of integers, kept exact and in lowest terms
RECURSIVE GCD(_, _)
GCD(a, b) == IF b = 0 THEN a ELSE GCD(b, a % b)

Ratio(n, d) == LET g == GCD(n, d) IN [num |-> n \div g, den |-> d \div g]

RatioLess(a, b) == a.num * b.den < b.num * a.den

RatioSum(a, b) == Ratio(a.num * b.den + b.num * a.den, a.den * b.den)

\* a / n
RatioOver(a, n) == Ratio(a.num, a.den * n)

\* min(a, b): the first argument unless the second is smaller
MinOf(a, b) == IF RatioLess(b, a) THEN b ELSE a

\* sum(values) of a list of floats
RECURSIVE SumOf(_)
SumOf(values) ==
    IF values = <<>> THEN Ratio(0, 1) ELSE RatioSum(Head(values), SumOf(Tail(values)))

\* OCRParser.process_document: the exception it raises again, with the message
\* str(e) gives, or the list of pages it returns
OCRRaises(message) == [raised |-> TRUE, error |-> message, value |-> <<>>]
OCRReturns(pages) == [raised |-> FALSE, error |-> "", value |-> pages]

\* OCRResult(text, confidence, ...): the fields process_document reads; the
\* confidence is in tenths, as the confidence of a ValidationResult is
OCRResult(chars, conf) == [text |-> chars, confidence |-> conf]

\* TaxFormProcessor._get_form_name
GetFormName(ft) ==
    CASE ft = "1040" -> "U.S. Individual Income Tax Return"
      [] ft = "W2" -> "Wage and Tax Statement"
      [] ft = "1099" -> "Miscellaneous Income"
      [] ft = "Schedule C" -> "Profit or Loss From Business"
      [] ft = "941" -> "Employer's Quarterly Federal Tax Return"
      [] ft = "1120" -> "U.S. Corporation Income Tax Return"
      [] OTHER -> "Form " \o ft

\* int(value): a number as it is, a str of an optional sign and digits between
\* whitespace; a list or None raises TypeError, any other str ValueError
IntOf(value) ==
    CASE value.t = "num" -> [ok |-> TRUE, value |-> value.n]
      [] value.t = "str" -> ParseFloat(Strip(value.s))
      [] OTHER -> [ok |-> FALSE, value |-> 0]

\* TaxFormProcessor._extract_tax_year
ExtractTaxYear(structured_data, year_now) ==
    IF "tax_year" \in DOMAIN structured_data /\ IntOf(structured_data["tax_year"]).ok
    THEN IntOf(structured_data["tax_year"]).value
    ELSE year_now - 1

\* dataclass TaxFormRecord: the fields left out take the default None
TaxFormRecord(fields) ==
    fields @@ [form_id |-> None, form_type |-> None, form_name |-> None,
               tax_year |-> None, file_path |-> None, processing_status |-> None,
               fields_extracted |-> None, confidence_score |-> None,
               validation_errors |-> None, validation_warnings |-> None,
               processed_by |-> None]

\* DatabaseHandler._generate_form_id: an id no stored record has
GenerateFormId(records) == "FORM_" \o DecimalDigits(Len(records) + 1)

\* DatabaseHandler.insert_tax_form: the record stored under a new form_id, or
\* the exception of the database, which the method raises again
InsertTaxForm(records, record, outcome) ==
    IF outcome = "raise"
    THEN [raised |-> TRUE, value |-> "DB failed", db_records |-> records]
    ELSE [raised |-> FALSE, value |-> GenerateFormId(records),
          db_records |-> Append(records,
                                [record EXCEPT !.form_id = Str(GenerateFormId(records))])]

\* datetime.utcnow(): the model keeps that a date was stamped, not which
UtcNow == [t |-> "datetime"]

\* EFilingIntegration._generate_submission_id
GenerateSubmissionId(stored) == "SUB_" \o DecimalDigits(Len(stored) + 1)

\* the fields prepare_submission encrypts
SensitiveFields == {"ssn", "spouse_ssn", "bank_account", "routing_number"}

\* SecurityHandler.encrypt_data(str(value))
Encrypted(value) == [t |-> "encrypted", plain |-> value]

\* chars.replace('-', '')
RECURSIVE RemoveDashes(_)
RemoveDashes(chars) ==
    IF Len(chars) = 0 THEN chars
    ELSE IF Head(chars) = "-" THEN RemoveDashes(Tail(chars))
         ELSE Head(chars) \o RemoveDashes(Tail(chars))

\* form_data.get(key), None when the key is absent
Get(form_data, key) == IF key \in DOMAIN form_data THEN form_data[key] ELSE None

\* type(value).__name__, as the message of an AttributeError shows it
TypeName(value) ==
    CASE value.t = "list" -> "list"
      [] value.t = "num" -> "int"
      [] value.t = "none" -> "NoneType"
      [] OTHER -> value.t

\* EFilingIntegration.prepare_submission: form_data.get('ssn', '').replace
\* raises AttributeError on a value that is not a str
PrepareSubmission(stored, form_data, ft, tax_year) ==
    LET ssn == IF "ssn" \in DOMAIN form_data THEN form_data["ssn"] ELSE Str("")
        submission ==
            [submission_id |-> GenerateSubmissionId(stored),
             form_id |-> Get(form_data, "form_id"),
             taxpayer_tin |-> RemoveDashes(ssn.s),
             submission_type |-> "original",
             filing_status |-> Get(form_data, "filing_status"),
             tax_year |-> tax_year,
             submission_data |->
                 [field \in DOMAIN form_data |->
                     IF field \in SensitiveFields /\ Truthy(form_data[field])
                     THEN Encrypted(form_data[field]) ELSE form_data[field]],
             submission_status |-> "pending",
             acknowledgment_id |-> None,
             error_messages |-> <<>>,
             created_date |-> UtcNow,
             transmitted_date |-> None,
             acknowledged_date |-> None]
    IN  IF ssn.t # "str"
        THEN [raised |-> TRUE,
              value |-> "'" \o TypeName(ssn) \o "' object has no attribute 'replace'",
              submissions |-> stored]
        ELSE [raised |-> FALSE, value |-> submission,
              submissions |-> Append(stored, submission)]

\* what process_document hands back: its result dict, and the database, the
\* e-filing store and the output directory as it left them
Outcome(result, records, stored, files) ==
    [result |-> result, db_records |-> records, submissions |-> stored,
     output_files |-> files]

\* the except branch of process_document: the error record is stored if the
\* database takes it, and the failure dict is returned
DocumentFailure(file_path, message, doc, store, year_now) ==
    LET error_record ==
            TaxFormRecord([file_path |-> Str(file_path),
                           processing_status |-> Str("error"),
                           validation_errors |-> <<message>>,
                           processed_by |-> Str("system")])
        inserted == InsertTaxForm(store.db_records, error_record, doc.insert_error)
    IN  Outcome([success |-> FALSE,
                 form_id |-> IF inserted.raised THEN "unknown" ELSE inserted.value,
                 error |-> message,
                 file_path |-> file_path,
                 processing_timestamp |-> year_now],
                inserted.db_records, store.submissions, store.output_files)

\* step 5 of process_document: the e-filing preparation, when it is enabled and
\* the data is valid; its exception is caught in place
PrepareEFiling(nlp_results, store, settings, year_now) ==
    IF settings.efiling_integration /\ nlp_results.validation.is_valid
           /\ settings.auto_efile
    THEN PrepareSubmission(store.submissions, nlp_results.structured_data,
                           nlp_results.form_type,
                           ExtractTaxYear(nlp_results.structured_data, year_now))
    ELSE [raised |-> FALSE, value |-> None, submissions |-> store.submissions]

EFilingResult(prepared) ==
    IF prepared.raised THEN [status |-> "error", message |-> prepared.value]
    ELSE IF prepared.value = None THEN None
    ELSE [submission_id |-> prepared.value.submission_id,
          status |-> "prepared",
          message |-> "Ready for e-filing submission"]

\* TaxFormProcessor._save_processing_results: a failure to write is logged only
SaveProcessingResults(files, form_id, outcome) ==
    IF outcome = "raise" THEN files ELSE Append(files, "processing_result_" \o form_id)

\* steps 5 and 6 of process_document, after the record was stored as form_id
ReportDocument(file_path, doc, store, records, form_id, form_record, combined_text, combined_confidence, nlp_results, prepared) ==
    Outcome([success |-> TRUE,
             form_id |-> form_id,
             processing_timestamp |-> nlp_results.processing_timestamp,
             file_path |-> file_path,
             form_type |-> nlp_results.form_type,
             confidence_score |-> form_record.confidence_score,
             validation |-> nlp_results.validation,
             ocr_results |-> [pages_processed |-> Len(doc.ocr.value),
                              average_confidence |-> combined_confidence,
                              text_length |-> Len(combined_text)],
             nlp_results |-> [entities_found |-> Len(nlp_results.entities),
                              financial_amounts |-> Len(nlp_results.financial_amounts),
                              structured_fields |->
                                  Cardinality(DOMAIN nlp_results.structured_data)],
             extracted_data |-> nlp_results.structured_data,
             efiling |-> EFilingResult(prepared)],
            records, prepared.submissions,
            SaveProcessingResults(store.output_files, form_id, doc.save))

\* step 4 of process_document and what follows it
StoreDocument(file_path, doc, store, settings, year_now, combined_text, combined_confidence, nlp_results) ==
    LET form_record ==
            TaxFormRecord(
                [form_type |-> Str(nlp_results.form_type),
                 form_name |-> Str(GetFormName(nlp_results.form_type)),
                 tax_year |-> Num(ExtractTaxYear(nlp_results.structured_data, year_now)),
                 file_path |-> Str(file_path),
                 processing_status |->
                     IF nlp_results.validation.is_valid THEN Str("processed")
                     ELSE Str("validation_errors"),
                 fields_extracted |-> nlp_results.structured_data,
                 confidence_score |->
                     MinOf(combined_confidence, Ratio(nlp_results.validation.confidence, 1)),
                 validation_errors |-> nlp_results.validation.errors,
                 validation_warnings |-> nlp_results.validation.warnings,
                 processed_by |-> Str("system")])
        inserted == InsertTaxForm(store.db_records, form_record, doc.insert)
    IN  IF inserted.raised
        THEN DocumentFailure(file_path, inserted.value, doc, store, year_now)
        ELSE ReportDocument(file_path, doc, store, inserted.db_records, inserted.value,
                            form_record, combined_text, combined_confidence, nlp_results,
                            PrepareEFiling(nlp_results, store, settings, year_now))

\* TaxFormProcessor.process_document(file_path, form_type)
ProcessDocument(file_path, hint, doc, store, settings, nlp_model, pipeline, year_now) ==
    IF doc.ocr.raised
    THEN DocumentFailure(file_path, doc.ocr.error, doc, store, year_now)
    ELSE IF doc.ocr.value = <<>>
    THEN DocumentFailure(file_path, "No OCR results obtained from document", doc, store,
                         year_now)
    ELSE LET ocr_results == doc.ocr.value
             combined_text ==
                 JoinLines([i \in 1..Len(ocr_results) |-> ocr_results[i].text])
             combined_confidence ==
                 RatioOver(SumOf([i \in 1..Len(ocr_results) |->
                                     Ratio(ocr_results[i].confidence, 1)]),
                           Len(ocr_results))
         IN  CHOOSE outcome \in
                 { IF out.raised
                   THEN DocumentFailure(file_path, out.value, doc, store, year_now)
                   ELSE StoreDocument(file_path, doc, store, settings, year_now,
                                      combined_text, combined_confidence, out.value) :
                   out \in {ProcessTaxFormText(Str(combined_text), hint, nlp_model,
                                                pipeline, year_now)} } : TRUE

\* TaxFormProcessor.process_batch: the batch_results dict before the loop
NewBatch(directory_path, files, year_now) ==
    [batch_id |-> "BATCH_" \o DecimalDigits(year_now),
     start_time |-> year_now,
     directory |-> directory_path,
     total_files |-> Len(files),
     processed_files |-> <<>>,
     successful_count |-> 0,
     error_count |-> 0,
     summary |-> <<>>]

CountWithoutTest(results, result) == [results EXCEPT !.successful_count = @ + 1]

\* if result['success']: successful_count += 1, else: error_count += 1
Count(results, result) ==
    IF result.success THEN [results EXCEPT !.successful_count = @ + 1]
    ELSE [results EXCEPT !.error_count = @ + 1]

\* one turn of the loop of process_batch, given the result of process_document
Record(results, result) ==
    Count([results EXCEPT !.processed_files = Append(@, result)], result)

\* the processed_files that succeeded
Successes(results) == SelectSeq(results.processed_files, LAMBDA r : r.success)

\* successful_count / total_files * 100 if total_files > 0 else 0
SuccessRate(results) ==
    IF results.total_files > 0
    THEN Ratio(results.successful_count * 100, results.total_files)
    ELSE Ratio(0, 1)

\* the form_types dict: how many successful results each form type has
FormTypeDistribution(results) ==
    LET done == Successes(results)
    IN  [ft \in { done[i].form_type : i \in 1..Len(done) } |->
            Cardinality({ i \in 1..Len(done) : done[i].form_type = ft })]

\* sum of the confidence scores of the successes / max(successful_count, 1)
AverageConfidence(results) ==
    LET done == Successes(results)
    IN  RatioOver(SumOf([i \in 1..Len(done) |-> done[i].confidence_score]),
                  Max(results.successful_count, 1))

\* the batch summary of process_batch, after the loop
Summarize(results, year_now) ==
    [batch_id |-> results.batch_id,
     start_time |-> results.start_time,
     directory |-> results.directory,
     total_files |-> results.total_files,
     processed_files |-> results.processed_files,
     successful_count |-> results.successful_count,
     error_count |-> results.error_count,
     end_time |-> year_now,
     success_rate |-> SuccessRate(results),
     summary |-> [form_type_distribution |-> FormTypeDistribution(results),
                  average_confidence |-> AverageConfidence(results)]]

\* TaxFormProcessor._save_batch_results: a failure to write is logged only
SaveBatchResults(files, results, outcome) ==
    IF outcome = "raise" THEN files ELSE Append(files, "batch_result_" \o results.batch_id)

(***************************************************************************)
(* The inputs of a batch                                                   *)
(***************************************************************************)
\* the directory handed to process_batch and the files the glob finds in it
DirectoryPath == "forms"
FilePath(i) == DirectoryPath \o "/form_" \o DecimalDigits(i) \o ".pdf"
FilesOf(n) == [i \in 1..n |-> FilePath(i)]

\* what OCRParser.process_document does with a file: it raises, or returns the
\* pages it read (none, one without any text, one or two with text)
OCROutcomes ==
    { OCRRaises("OCR failed"),
      OCRReturns(<<>>),
      OCRReturns(<<OCRResult("", 8)>>),
      OCRReturns(<<OCRResult("hello world", 8)>>),
      OCRReturns(<<OCRResult("Payer and recipient", 9)>>),
      OCRReturns(<<OCRResult("SSN: 123-45-6789", 4),
                   OCRResult("Payer and recipient", 9)>>) }

\* the collaborators during one process_document: the OCR outcome, whether
\* the database takes the form record and the error record, and whether the
\* result file can be written.  insert_error is read only on a failure and
\* save only on a success.
Documents ==
    { [ocr |-> o, insert |-> "ok", insert_error |-> e, save |-> "ok"] :
          o \in { x \in OCROutcomes : x.raised \/ x.value = <<>> }, e \in {"ok", "raise"} }
    \cup
    { [ocr |-> o, insert |-> "ok", insert_error |-> "ok", save |-> s] :
          o \in { x \in OCROutcomes : ~x.raised /\ x.value # <<>> }, s \in {"ok", "raise"} }
    \cup
    { [ocr |-> o, insert |-> "raise", insert_error |-> e, save |-> "ok"] :
          o \in { x \in OCROutcomes : ~x.raised /\ x.value # <<>> }, e \in {"ok", "raise"} }

\* self.efiling_integration is set or None; self.config.get('auto_efile', False)
Settings == [efiling_integration : BOOLEAN, auto_efile : BOOLEAN]

\* self.nlp and self.ner_pipeline of the NLPProcessor of a TaxFormProcessor
BatchCollaborators ==
    { [nlp |-> None, ner_pipeline |-> None],
      [nlp |-> Answering(SpacyConfidence), ner_pipeline |-> Answering(99)] }

(***************************************************************************)
(* process_batch                                                           *)
(***************************************************************************)
InitBatch ==
    /\ pc = "call"
    /\ config \in Settings
    /\ \E loaded \in BatchCollaborators :
          /\ nlp = loaded.nlp
          /\ ner_pipeline = loaded.ner_pipeline
    /\ current_year \in CurrentYears
    /\ files_to_process = None /\ batch_results = None
    /\ db_records = <<>> /\ submissions = <<>> /\ output_files = <<>>
    /\ posted = Unused /\ returned = Unused
    /\ text = Unused /\ form_scores = Unused /\ envelope = Unused
    /\ form_type = Unused /\ extracted_data = Unused /\ args = Unused
    /\ errors = Unused /\ warnings = Unused /\ confidence = Unused
    /\ validation = Unused
    /\ input_entities = Unused /\ entities = Unused /\ merged = Unused

batch_unchanged ==
    <<config, nlp, ner_pipeline, current_year, text, form_scores, envelope, form_type,
      extracted_data, args, errors, warnings, confidence, validation, merge_vars,
      efiling_vars>>

\* process_batch(directory_path) up to the loop: the glob and the new
\* batch_results
BatchStart ==
    /\ pc = "call"
    /\ \E n \in 0..MaxFiles :
          /\ files_to_process' = FilesOf(n)
          /\ batch_results' = NewBatch(DirectoryPath, FilesOf(n), current_year)
    /\ pc' = "loop"
    /\ UNCHANGED <<db_records, submissions, output_files, batch_unchanged>>

\* one turn of the loop: result = self.process_document(str(file_path)), then
\* the append and the count
BatchStep ==
    /\ pc = "loop"
    /\ Len(batch_results.processed_files) < Len(files_to_process)
    /\ \E doc \in Documents :
       \E out \in {ProcessDocument(
                       files_to_process[Len(batch_results.processed_files) + 1], None,
                       doc,
                       [db_records |-> db_records, submissions |-> submissions,
                        output_files |-> output_files],
                       config, nlp, ner_pipeline, current_year)} :
          /\ batch_results' = Record(batch_results, out.result)
          /\ db_records' = out.db_records
          /\ submissions' = out.submissions
          /\ output_files' = out.output_files
    /\ UNCHANGED <<pc, files_to_process, batch_unchanged>>

\* after the loop: the summary, the save and the return
BatchFinish ==
    /\ pc = "loop"
    /\ Len(batch_results.processed_files) = Len(files_to_process)
    /\ batch_results' = Summarize(batch_results, current_year)
    /\ \E outcome \in {"ok", "raise"} :
          output_files' = SaveBatchResults(output_files, batch_results', outcome)
    /\ pc' = "done"
    /\ UNCHANGED <<files_to_process, db_records, submissions, batch_unchanged>>

NextBatch == BatchStart \/ BatchStep \/ BatchFinish

SpecBatch == InitBatch /\ [][NextBatch]_vars

(***************************************************************************)
(* C1: the list returned by _merge_overlapping_entities is in ascending    *)
(* start_pos order and each entity ends no later than the next one starts. *)
(***************************************************************************)
MergedAscendingNonOverlapping ==
    pc = "done" =>
        \A i \in 1..(Len(merged) - 1) :
            /\ merged[i].start_pos <= merged[i + 1].start_pos
            /\ merged[i].end_pos <= merged[i + 1].start_pos

\* an unsorted three-entity input with an overlapping pair that leaves two entities
MergedAscendingWitness ==
    /\ pc = "done"
    /\ Len(input_entities) = 3
    /\ input_entities # entities
    /\ Len(merged) = 2

(***************************************************************************)
(* C9: of two entities that overlap, exactly one is returned: the one with *)
(* the strictly higher confidence whatever the input order, and on equal   *)
(* confidence the one that is first after the stable sort by start_pos.    *)
(***************************************************************************)
FirstOfTwo(a, b) == IF b.start_pos < a.start_pos THEN b ELSE a
SecondOfTwo(a, b) == IF b.start_pos < a.start_pos THEN a ELSE b

TwoOverlappingKeepHigher ==
    (pc = "done" /\ Len(input_entities) = 2) =>
        LET a == input_entities[1]
            b == input_entities[2]
            current == FirstOfTwo(a, b)
            next_entity == SecondOfTwo(a, b)
        IN  (/\ next_entity.start_pos <= current.end_pos
             /\ next_entity.end_pos >= current.start_pos) =>
                /\ Len(merged) = 1
                /\ a.confidence > b.confidence => merged[1] = a
                /\ b.confidence > a.confidence => merged[1] = b
                /\ a.confidence = b.confidence => merged[1] = current

\* the higher-confidence entity comes second in the input and starts later, and wins
TwoOverlappingWitness ==
    /\ pc = "done"
    /\ Len(input_entities) = 2
    /\ input_entities[1].start_pos < input_entities[2].start_pos
    /\ input_entities[2].start_pos <= input_entities[1].end_pos
    /\ input_entities[2].confidence > input_entities[1].confidence
    /\ merged = <<input_entities[2]>>

(***************************************************************************)
(* Helpers of the properties of the validator                              *)
(***************************************************************************)
\* how many entries of a message list have this kind and name this field
CountOf(list, kind, field) ==
    Cardinality({ i \in 1..Len(list) : list[i] = Message(kind, field) })

HasKind(list, kind) == \E i \in 1..Len(list) : list[i].kind = kind

\* the penalty the method's documentation attaches to a message
PenaltyOf(kind) ==
    CASE kind = "Required field is missing" -> 2
      [] kind \in {"below minimum", "Invalid SSN format", "Invalid EIN format"} -> 3
      [] kind = "SSN appears to be a placeholder" -> 2
      [] OTHER -> 1

RECURSIVE TotalPenalty(_)
TotalPenalty(list) ==
    IF list = <<>> THEN 0 ELSE PenaltyOf(Head(list).kind) + TotalPenalty(Tail(list))

\* the call reached its return statement (it did not go through "except")
ReturnedNormally == pc = "done" /\ validation.errors = errors

ValidationErrorOnly == <<Message("Validation error", "")>>

(***************************************************************************)
(* C2: validate_extracted_data never raises: whatever the form type and    *)
(* the data, values of an unexpected type included, the call returns a     *)
(* ValidationResult.                                                       *)
(***************************************************************************)
ValidateNeverRaises ==
    /\ pc \in {"call", "done"}
    /\ pc = "done" =>
          /\ DOMAIN validation = {"is_valid", "confidence", "errors", "warnings"}
          /\ validation.is_valid \in BOOLEAN
          /\ validation.confidence \in Int

\* a non-string ssn made re.match raise, and the call still returned a result
ValidateNeverRaisesWitness ==
    /\ pc = "done"
    /\ form_type = "1040"
    /\ "ssn" \in DOMAIN extracted_data
    /\ extracted_data["ssn"].t = "list"
    /\ "total_income" \in DOMAIN extracted_data
    /\ extracted_data["total_income"].t = "num"
    /\ validation.errors = ValidationErrorOnly

(***************************************************************************)
(* C3: the confidence of every returned result lies in [0.0, 1.0], also    *)
(* when the penalties sum to more than 1.0 and on the exception path.      *)
(***************************************************************************)
ConfidenceWithinBounds ==
    pc = "done" => (0 <= validation.confidence /\ validation.confidence <= FullConfidence)

\* penalties above 1.0 on the normal path: the local confidence is negative
ConfidenceWithinBoundsWitness ==
    /\ ReturnedNormally
    /\ confidence < 0
    /\ validation.confidence = 0

(***************************************************************************)
(* C4: is_valid is true exactly when the errors list of the result is      *)
(* empty; warnings never make it false.                                    *)
(***************************************************************************)
IsValidIffNoErrors ==
    pc = "done" => (validation.is_valid <=> validation.errors = <<>>)

\* a 1040 with a warning and no error is valid
IsValidIffNoErrorsWitness ==
    /\ pc = "done"
    /\ form_type = "1040"
    /\ validation.is_valid
    /\ Len(validation.warnings) >= 1

(***************************************************************************)
(* C5: for a form type with a rule set the call appends exactly one        *)
(* "Required field '<name>' is missing" error, and takes 0.2 off the       *)
(* confidence, for each required field that is absent or falsy, and none   *)
(* for a required field that is present and non-empty; a 1040 with {}      *)
(* gives exactly 4 such errors, is_valid false and confidence 0.2.         *)
(***************************************************************************)
FalsyValues == { Str(""), Num(0), List(<<>>), None }

AbsentOrFalsy(field) ==
    field \notin DOMAIN extracted_data \/ extracted_data[field] \in FalsyValues

MissingRequired ==
    { f \in SeqToSet(FormConfig(form_type).required_fields) : AbsentOrFalsy(f) }

RequiredErrorsOf(list) == { i \in 1..Len(list) : list[i].kind = "Required field is missing" }

OtherMessages(list) == SelectSeq(list, LAMBDA m : m.kind # "Required field is missing")

RequiredFieldErrors ==
    (pc = "done" /\ form_type \in {"1040", "W2"}) =>
        /\ \A f \in SeqToSet(FormConfig(form_type).required_fields) :
              CountOf(errors, "Required field is missing", f) = IF AbsentOrFalsy(f) THEN 1 ELSE 0
        /\ Cardinality(RequiredErrorsOf(errors)) = Cardinality(MissingRequired)
        /\ ReturnedNormally =>
              LET owed == 10 - 2 * Cardinality(MissingRequired)
                             - TotalPenalty(OtherMessages(validation.errors))
                             - TotalPenalty(validation.warnings)
              IN  validation.confidence = IF owed < 0 THEN 0 ELSE owed
        /\ (form_type = "1040" /\ extracted_data = <<>>) =>
              /\ Len(validation.errors) = 4
              /\ Cardinality(RequiredErrorsOf(validation.errors)) = 4
              /\ ~validation.is_valid
              /\ validation.confidence = 2

\* one required field is present but empty, another present and non-empty
RequiredFieldErrorsWitness ==
    /\ ReturnedNormally
    /\ form_type = "1040"
    /\ DOMAIN extracted_data = {"name", "filing_status", "total_income"}
    /\ extracted_data["name"] = Str("")
    /\ extracted_data["total_income"] = Num(0)
    /\ extracted_data["filing_status"] = Str("John Doe")
    /\ Len(errors) = 3
    /\ validation.confidence = 4

(***************************************************************************)
(* C6: whatever the form type, an 'ssn' value that does not match          *)
(* DDD-DD-DDDD exactly gets an "Invalid SSN format" error, 0.3 off the     *)
(* confidence and is_valid false.                                          *)
(***************************************************************************)
SSNFormatErrorForEveryFormType ==
    (/\ pc = "done"
     /\ "ssn" \in DOMAIN extracted_data
     /\ extracted_data["ssn"].t = "str"
     /\ ~HasShape(extracted_data["ssn"].s, SSNPattern)) =>
        /\ CountOf(validation.errors, "Invalid SSN format", "ssn") = 1
        /\ ~validation.is_valid
        /\ validation.confidence <= FullConfidence - SSNFormatPenalty

(***************************************************************************)
(* C7: an 'ssn' that matches DDD-DD-DDDD and is one of the placeholders    *)
(* 000-00-0000, 123-45-6789, 111-11-1111 adds exactly one warning, takes   *)
(* exactly 0.2 off the confidence and adds no error; a format-valid ssn    *)
(* that is no placeholder adds neither a warning nor an error.             *)
(***************************************************************************)
Appended(list, before) == SubSeq(list, Len(before) + 1, Len(list))

NamingField(list, field) == SelectSeq(list, LAMBDA m : m.field = field)

NotNamingField(list, field) == SelectSeq(list, LAMBDA m : m.field # field)

PlaceholderSSNWarnsOnce ==
    (/\ pc \in {"done", "raised"}
     /\ "ssn" \in DOMAIN extracted_data
     /\ extracted_data["ssn"].t = "str"
     /\ HasShape(extracted_data["ssn"].s, "ddd-dd-dddd")) =>
        LET ssn == extracted_data["ssn"].s
            new_errors == Appended(errors, args.errors)
            new_warnings == Appended(warnings, args.warnings)
            other_penalties == TotalPenalty(NotNamingField(new_errors, "ssn"))
                                 + TotalPenalty(NotNamingField(new_warnings, "ssn"))
        IN  /\ SubSeq(errors, 1, Len(args.errors)) = args.errors
            /\ SubSeq(warnings, 1, Len(args.warnings)) = args.warnings
            /\ NamingField(new_errors, "ssn") = <<>>
            /\ IF ssn \in {"000-00-0000", "123-45-6789", "111-11-1111"}
               THEN /\ NamingField(new_warnings, "ssn")
                          = <<Message("SSN appears to be a placeholder", "ssn")>>
                    /\ pc = "done" => confidence = args.confidence - 2 - other_penalties
               ELSE /\ NamingField(new_warnings, "ssn") = <<>>
                    /\ pc = "done" => confidence = args.confidence - other_penalties

\* a placeholder ssn alone, passed with an error already recorded
PlaceholderSSNWitness ==
    /\ pc = "done"
    /\ DOMAIN extracted_data = {"ssn"}
    /\ extracted_data["ssn"] = Str("123-45-6789")
    /\ Len(args.errors) = 1
    /\ errors = args.errors
    /\ Len(warnings) = 1
    /\ confidence = args.confidence - 2

(***************************************************************************)
(* C8: each field with a numeric range rule in the form type's rule set    *)
(* that is present with a number, or with a string that converts to one    *)
(* once '$' and ',' are removed, gets exactly one error and 0.3 off when   *)
(* the value is below min, exactly one warning, no error, and 0.1 off when *)
(* it is above max, and nothing when it lies within [min, max].            *)
(***************************************************************************)
\* the number a value stands for: ok is FALSE when it stands for none
NumberOf(value) ==
    IF value.t = "num" THEN [ok |-> TRUE, value |-> value.n]
    ELSE IF value.t = "str" THEN ParseFloat(StripCurrency(value.s))
    ELSE [ok |-> FALSE, value |-> 0]

RangeMessagesOf(list, field) ==
    Cardinality({ i \in 1..Len(list) :
        /\ list[i].field = field
        /\ list[i].kind \in {"below minimum", "seems unusually high",
                             "Could not validate numeric field"} })

RangeRuleHoldsFor(rule) ==
    (rule.field \in DOMAIN extracted_data /\ NumberOf(extracted_data[rule.field]).ok) =>
        LET n == NumberOf(extracted_data[rule.field]).value
        IN  /\ n < rule.min =>
                /\ CountOf(errors, "below minimum", rule.field) = 1
                /\ RangeMessagesOf(errors, rule.field) = 1
                /\ RangeMessagesOf(warnings, rule.field) = 0
            /\ n > rule.max =>
                /\ CountOf(warnings, "seems unusually high", rule.field) = 1
                /\ RangeMessagesOf(warnings, rule.field) = 1
                /\ RangeMessagesOf(errors, rule.field) = 0
            /\ (rule.min <= n /\ n <= rule.max) =>
                /\ RangeMessagesOf(errors, rule.field) = 0
                /\ RangeMessagesOf(warnings, rule.field) = 0

RangeRuleOfEveryField ==
    (pc = "done" /\ form_type \in {"1040", "W2"}) =>
        \A i \in 1..Len(FormConfig(form_type).validation_rules) :
            RangeRuleHoldsFor(FormConfig(form_type).validation_rules[i])

(***************************************************************************)
(* C10: process_tax_form_text, called without a form-type hint on a text   *)
(* that contains no keyword of any form type, gets 0.0 for all six scores  *)
(* and reports the form_type 'Unknown' in the envelope.                    *)
(***************************************************************************)
AllKeywords == UNION { SeqToSet(FormKeywords[k].keywords) : k \in 1..Len(FormKeywords) }

NoKeywordIn(chars) ==
    LET text_lower == Lower(chars)
    IN  \A keyword \in AllKeywords : ~Contains(text_lower, keyword)

NoKeywordGivesUnknown ==
    (/\ pc = "done"
     /\ ~Truthy(args.form_type)
     /\ NoKeywordIn(text.s)) =>
        /\ Len(form_scores) = 6
        /\ \A k \in 1..Len(form_scores) : form_scores[k].score = 0
        /\ envelope.form_type = "Unknown"

(***************************************************************************)
(* C11: without a hint, when several form types share the maximum non-zero *)
(* score, process_tax_form_text selects the one that comes first in the    *)
(* order 1040, W2, 1099, Schedule C, 941, 1120: a text whose only keyword  *)
(* is 'employer' selects W2, not 941.                                      *)
(***************************************************************************)
FixedOrder == <<"1040", "W2", "1099", "Schedule C", "941", "1120">>

ScoreOf(name) ==
    LET k == CHOOSE i \in 1..Len(form_scores) : form_scores[i].form_type = name
    IN  form_scores[k].score

TopScore == Largest({ form_scores[k].score : k \in 1..Len(form_scores) })

ClassifiedWithoutHint == pc = "done" /\ ~Truthy(args.form_type)

FirstOfTiedSelected ==
    (ClassifiedWithoutHint /\ TopScore > 0) =>
        \E k \in 1..Len(FixedOrder) :
            /\ envelope.form_type = FixedOrder[k]
            /\ ScoreOf(FixedOrder[k]) = TopScore
            /\ \A j \in 1..(k - 1) : ScoreOf(FixedOrder[j]) < TopScore

\* 'employer' is the only keyword of the text: W2 and 941 tie at 0.25
FirstOfTiedWitness ==
    /\ ClassifiedWithoutHint
    /\ text = Str("Employer EIN 12-3456789 $,")
    /\ ScoreOf("W2") = 25 /\ ScoreOf("941") = 25
    /\ TopScore = 25
    /\ envelope.form_type = "W2"

(***************************************************************************)
(* C12: classify_form_content returns, for each of the six form types, the *)
(* number of the type's keyword phrases that occur in the text as          *)
(* case-insensitive substrings divided by the number of its phrases; a     *)
(* phrase counts once however often it occurs, and every score lies in     *)
(* [0, 1].                                                                 *)
(***************************************************************************)
OccursIgnoringCase(chars, keyword) ==
    \E i \in 1..(Len(chars) - Len(keyword) + 1) :
        \A j \in 1..Len(keyword) :
            LowerChar(CharAt(chars, i + j - 1)) = CharAt(keyword, j)

PhrasesFound(chars, keywords) ==
    { keyword \in SeqToSet(keywords) : OccursIgnoringCase(chars, keyword) }

ScoresAreKeywordShares ==
    ClassifiedWithoutHint =>
        /\ Len(form_scores) = 6
        /\ \A k \in 1..6 :
              /\ form_scores[k].form_type = FixedOrder[k]
              /\ FormKeywords[k].form_type = FixedOrder[k]
              /\ form_scores[k].score * Len(FormKeywords[k].keywords)
                    = 100 * Cardinality(PhrasesFound(text.s, FormKeywords[k].keywords))
              /\ form_scores[k].score >= 0
              /\ form_scores[k].score <= 100

\* 'nonemployee compensation' occurs twice and counts once for 1099, and its
\* substring 'employee' once for W2
ScoresAreKeywordSharesWitness ==
    /\ ClassifiedWithoutHint
    /\ text = Str("nonemployee compensation\nnonemployee compensation")
    /\ ScoreOf("1099") = 25
    /\ ScoreOf("W2") = 25
    /\ ScoreOf("1040") = 0

(***************************************************************************)
(* C13: process_tax_form_text on the five-line 1040 sample, with no hint,  *)
(* returns form_type '1040', a structured_data that holds the ssn          *)
(* '123-45-6789', and a validation with is_valid true and confidence above *)
(* 0.5.                                                                    *)
(***************************************************************************)
SampleReturnIsValid ==
    (ClassifiedWithoutHint /\ text = Str(SampleReturn)) =>
        /\ envelope.form_type = "1040"
        /\ "ssn" \in DOMAIN envelope.structured_data
        /\ "123-45-6789" \in SeqToSet(envelope.structured_data["ssn"].items)
        /\ envelope.validation.is_valid
        /\ envelope.validation.confidence > 5

(***************************************************************************)
(* C14: structured_data groups the merged entities by entity_type: under   *)
(* every type it holds the entity_value of all merged entities of the      *)
(* type, in merged order; no value overwrites another, so the values are   *)
(* as many as the merged entities, and the keys are exactly the types      *)
(* present.                                                                *)
(***************************************************************************)
ValuesOfType(list, t) ==
    LET of_type == SelectSeq(list, LAMBDA e : e.entity_type = t)
    IN  [k \in 1..Len(of_type) |-> of_type[k].entity_value]

GroupedValueCount(structured_data) ==
    LET longest == Largest({0} \cup { Len(structured_data[t].items) :
                                        t \in DOMAIN structured_data })
    IN  Cardinality({ <<t, k>> \in (DOMAIN structured_data) \X (1..longest) :
                        k <= Len(structured_data[t].items) })

StructuredDataGroupsByType ==
    pc = "done" =>
        /\ DOMAIN envelope.structured_data
              = { envelope.entities[i].entity_type : i \in 1..Len(envelope.entities) }
        /\ \A t \in DOMAIN envelope.structured_data :
              /\ envelope.structured_data[t].t = "list"
              /\ envelope.structured_data[t].items = ValuesOfType(envelope.entities, t)
        /\ GroupedValueCount(envelope.structured_data) = Len(envelope.entities)

\* two currency amounts in one line: both are kept, in the order of the text
StructuredDataGroupsWitness ==
    /\ pc = "done"
    /\ text = Str("Total income: $75,000.00, Tax withheld: $8,500")
    /\ nlp = None
    /\ Len(envelope.entities) = 2
    /\ envelope.structured_data["currency"].items = <<"$75,000.00", "$8,500">>

(***************************************************************************)
(* C15: extract_financial_amounts returns one entry per well-formed        *)
(* '$'-prefixed amount of the text, from left to right; its amount is the  *)
(* value of the literal without the thousands separators and its position  *)
(* the offset of the '$' ('Total income: $75,000.00, Tax withheld: $8,500' *)
(* gives 75000.0 and 8500.0 in that order); a match whose literal does not *)
(* parse yields no entry and no error.                                     *)
(***************************************************************************)
\* the index after the digits and commas that follow the '$' at index p
EndOfGroups(chars, p) ==
    Smallest({ q \in (p + 1)..(Len(chars) + 1) : At(chars, q) \notin Digits \cup {","} })

HasCents(chars, q) ==
    At(chars, q) = "." /\ At(chars, q + 1) \in Digits /\ At(chars, q + 2) \in Digits

\* a '$' followed by digits and commas, with at least one digit to read
WellFormedAmountAt(chars, p) ==
    /\ At(chars, p) = "$"
    /\ EndOfGroups(chars, p) > p + 1
    /\ \/ \E q \in (p + 1)..(EndOfGroups(chars, p) - 1) : At(chars, q) \in Digits
       \/ HasCents(chars, EndOfGroups(chars, p))

\* the digits from index q to index last read from the left, commas skipped
RECURSIVE ReadDigits(_, _, _, _)
ReadDigits(chars, q, last, sofar) ==
    IF q > last THEN sofar
    ELSE IF At(chars, q) = "," THEN ReadDigits(chars, q + 1, last, sofar)
    ELSE ReadDigits(chars, q + 1, last, 10 * sofar + DigitValue(At(chars, q)))

\* the value, in hundredths, of the amount whose '$' is at index p
AmountValueAt(chars, p) ==
    LET q == EndOfGroups(chars, p)
    IN  100 * ReadDigits(chars, p + 1, q - 1, 0)
            + (IF HasCents(chars, q) THEN ReadDigits(chars, q + 1, q + 2, 0) ELSE 0)

OneEntryPerAmount ==
    pc = "done" =>
        LET amounts == envelope.financial_amounts
        IN  /\ { amounts[k].position + 1 : k \in 1..Len(amounts) }
                  = { p \in 1..Len(text.s) : WellFormedAmountAt(text.s, p) }
            /\ \A k \in 1..(Len(amounts) - 1) : amounts[k].position < amounts[k + 1].position
            /\ \A k \in 1..Len(amounts) :
                  amounts[k].amount = AmountValueAt(text.s, amounts[k].position + 1)
            /\ text = Str("Total income: $75,000.00, Tax withheld: $8,500") =>
                  [k \in 1..Len(amounts) |-> amounts[k].amount] = <<7500000, 850000>>

\* two amounts that parse and the match '$,' that does not, in two lines
OneEntryPerAmountWitness ==
    /\ pc = "done"
    /\ text = Str("Employer EIN 12-3456789 $,\nTotal income: $75,000.00, Tax withheld: $8,500")
    /\ Len(envelope.financial_amounts) = 2
    /\ envelope.financial_amounts[1].position = 41
    /\ envelope.financial_amounts[2].amount = 850000

(***************************************************************************)
(* C16: for a text with exactly one SSN-formatted token (three digits, a   *)
(* dash, two digits, a dash, four digits, between word boundaries)         *)
(* _extract_pattern_entities yields exactly one entity of type 'ssn': its  *)
(* entity_value is the token, its confidence 0.95, and                     *)
(* 0 <= start_pos < end_pos <= len(text) with text[start_pos:end_pos] the  *)
(* token.                                                                  *)
(***************************************************************************)
IsSSNTokenAt(chars, p) ==
    /\ \A k \in 0..10 :
          IF k \in {3, 6} THEN At(chars, p + k) = "-" ELSE At(chars, p + k) \in Digits
    /\ At(chars, p - 1) \notin WordChars
    /\ At(chars, p + 11) \notin WordChars

SSNTokens(chars) == { p \in 1..Len(chars) : IsSSNTokenAt(chars, p) }

SSNEntities == SelectSeq(entities, LAMBDA e : e.entity_type = "ssn")

OneSSNTokenOneEntity ==
    (pc = "done" /\ Cardinality(SSNTokens(text.s)) = 1) =>
        LET p == CHOOSE q \in SSNTokens(text.s) : TRUE
            token == SubSeq(text.s, p, p + 10)
        IN  /\ Len(SSNEntities) = 1
            /\ SSNEntities[1].entity_value = token
            /\ SSNEntities[1].confidence = 95
            /\ 0 <= SSNEntities[1].start_pos
            /\ SSNEntities[1].start_pos < SSNEntities[1].end_pos
            /\ SSNEntities[1].end_pos <= Len(text.s)
            /\ SubSeq(text.s, SSNEntities[1].start_pos + 1, SSNEntities[1].end_pos) = token

\* the token after a label on the second line of a text
OneSSNTokenWitness ==
    /\ pc = "done"
    /\ text = Str("hello world\nSSN: 123-45-6789")
    /\ Len(SSNEntities) = 1
    /\ SSNEntities[1].start_pos = 17
    /\ SSNEntities[1].end_pos = 28
    /\ SSNEntities[1].entity_value = "123-45-6789"

(***************************************************************************)
(* C17: process_tax_form_text called with an input that is not text (None) *)
(* fails fast by signalling InvalidInputError, before any extraction,      *)
(* classification or validation result is produced.                        *)
(***************************************************************************)
NonTextSignalsInvalidInput ==
    (pc # "call" /\ text.t # "str") =>
        /\ pc = "raised"
        /\ envelope = Exception("InvalidInputError")
        /\ form_scores = None

(***************************************************************************)
(* C18: a document whose text is empty is aborted: process_document makes  *)
(* no result envelope and no stored form record for it, and reports the    *)
(* abort for that document alone while the batch goes on.  A result that   *)
(* is an envelope (success) carries the length of the text it was made     *)
(* from, so no envelope may have the length 0.                             *)
(***************************************************************************)
\* the batch has entered its loop
InBatch == pc \in {"loop", "done"}

\* the results of the documents processed so far
Processed == batch_results.processed_files

EmptyTextAbortsDocument ==
    InBatch =>
        \A i \in 1..Len(Processed) :
            Processed[i].success => Processed[i].ocr_results.text_length > 0

(***************************************************************************)
(* C19: when the OCR, the database or the e-filing collaborator fails      *)
(* while a document is processed, process_document does not raise but      *)
(* returns a failure result (success false) that carries the file_path of  *)
(* the document, and process_batch goes on with the remaining documents.   *)
(* Every turn of the loop appends one result, so the i-th result belongs   *)
(* to the i-th file; a result that reports a failed e-filing preparation   *)
(* must therefore be a failure result.                                     *)
(***************************************************************************)
\* the result reports that the e-filing preparation raised
EFilingFailed(result) ==
    /\ result.success
    /\ result.efiling # None
    /\ result.efiling.status = "error"

CollaboratorFailureIsFailureResult ==
    InBatch =>
        \A i \in 1..Len(Processed) :
            /\ Processed[i].file_path = files_to_process[i]
            /\ ~EFilingFailed(Processed[i])

(***************************************************************************)
(* C20: after every document of the loop of process_batch,                 *)
(* successful_count + error_count is the length of processed_files; when   *)
(* process_batch has returned, that sum is also total_files,               *)
(* successful_count is the number of results with success true, and        *)
(* success_rate is successful_count / total_files * 100, or 0 when there   *)
(* are no files.                                                           *)
(***************************************************************************)
\* the positions of the results with success true
SuccessfulResults == { i \in 1..Len(Processed) : Processed[i].success }

\* rate = count / total * 100 as an equation of integers
IsPercentageOf(rate, count, total) == rate.num * total = count * 100 * rate.den

BatchCountsAgree ==
    /\ InBatch =>
          batch_results.successful_count + batch_results.error_count = Len(Processed)
    /\ pc = "done" =>
          /\ batch_results.successful_count + batch_results.error_count
                 = batch_results.total_files
          /\ batch_results.total_files = Len(Processed)
          /\ batch_results.successful_count = Cardinality(SuccessfulResults)
          /\ IF batch_results.total_files > 0
             THEN IsPercentageOf(batch_results.success_rate,
                                 batch_results.successful_count,
                                 batch_results.total_files)
             ELSE batch_results.success_rate.num = 0

\* a batch of two files has returned with one success and one failure
BatchCountsWitness ==
    /\ pc = "done"
    /\ batch_results.total_files = 2
    /\ Cardinality(SuccessfulResults) = 1
    /\ batch_results.error_count = 1
    /\ batch_results.success_rate = Ratio(50, 1)

(***************************************************************************)
(* C21: validate_extracted_data accumulates issues instead of aborting:    *)
(* every error and warning the steps had recorded when the try block was   *)
(* left, also when a later step met a malformed value such as an 'ssn'     *)
(* that is not a string, is in the errors and warnings of the returned     *)
(* result.                                                                 *)
(***************************************************************************)
RecordedIssuesAreReturned ==
    pc = "done" =>
        /\ \A i \in 1..Len(errors) :
               \E j \in 1..Len(validation.errors) : validation.errors[j] = errors[i]
        /\ \A i \in 1..Len(warnings) :
               \E j \in 1..Len(validation.warnings) : validation.warnings[j] = warnings[i]

(***************************************************************************)
(* C22: _merge_overlapping_entities keeps the highest-confidence entity    *)
(* among overlapping ones: for any two input entities whose spans overlap, *)
(* the returned list never contains the lower-confidence one while leaving *)
(* out the higher-confidence one.                                          *)
(***************************************************************************)
\* the entity is one of the returned list
InMerged(x) == \E k \in 1..Len(merged) : merged[k] = x

LowerNeverKeptOverHigher ==
    pc = "done" =>
        \A i, j \in 1..Len(input_entities) :
            LET lower == input_entities[i]
                higher == input_entities[j]
            IN  (Overlaps(lower, higher) /\ lower.confidence < higher.confidence) =>
                    ~(InMerged(lower) /\ ~InMerged(higher))

(***************************************************************************)
(* C22, as the single sweep decides it: an input entity is left out of the *)
(* returned list only in favour of a returned entity whose confidence is   *)
(* at least as high and which is its neighbour in the returned list (no    *)
(* other returned entity starts strictly between the two); a returned      *)
(* entity of lower confidence may still overlap the one left out.          *)
(***************************************************************************)
\* no returned entity starts strictly between x and y
NeighbourInMerged(x, y) ==
    ~\E k \in 1..Len(merged) :
        /\ merged[k].start_pos > Min(x.start_pos, y.start_pos)
        /\ merged[k].start_pos < Max(x.start_pos, y.start_pos)

LeftOutOnlyForHigherOrEqual ==
    pc = "done" =>
        \A i \in 1..Len(input_entities) :
            ~InMerged(input_entities[i]) =>
                \E k \in 1..Len(merged) :
                    /\ merged[k].confidence >= input_entities[i].confidence
                    /\ NeighbourInMerged(input_entities[i], merged[k])

\* the sweep drops a 0.95 entity on a tie with the current one and then returns
\* a 0.8 entity that overlaps the dropped one
LeftOutForHigherWitness ==
    /\ pc = "done"
    /\ \E i, j \in 1..Len(input_entities) :
          /\ Overlaps(input_entities[i], input_entities[j])
          /\ input_entities[i].confidence < input_entities[j].confidence
          /\ InMerged(input_entities[i])
          /\ ~InMerged(input_entities[j])

(***************************************************************************)
(* C23: a field with a numeric range rule that is present as a string      *)
(* which does not convert to a number once '$' and ',' are removed gets    *)
(* exactly one warning and 0.1 off, no error and no min/max message, and   *)
(* the validation goes on with the remaining rule fields and the           *)
(* domain-specific checks.                                                 *)
(***************************************************************************)
\* the value of the rule's field is a string that float() rejects
FailsCoercion(rule) ==
    /\ rule.field \in DOMAIN extracted_data
    /\ extracted_data[rule.field].t = "str"
    /\ ~ParseFloat(StripCurrency(extracted_data[rule.field].s)).ok

CoercionFailureWarnsOnce ==
    (pc = "done" /\ HasRuleSet(form_type)) =>
        \A i \in 1..Len(FormConfig(form_type).validation_rules) :
            LET rule == FormConfig(form_type).validation_rules[i]
            IN  FailsCoercion(rule) =>
                    /\ CountOf(warnings, "Could not validate numeric field", rule.field) = 1
                    /\ RangeMessagesOf(warnings, rule.field) = 1
                    /\ RangeMessagesOf(errors, rule.field) = 0

(***************************************************************************)
(* C24: for each of date_of_birth, hire_date and termination_date present  *)
(* in the data, the date check records no error and at most one warning:   *)
(* exactly one, with 0.1 off, when the year parsed by the first format     *)
(* that parses (MM/DD/YYYY, MM-DD-YYYY, YYYY-MM-DD) is after the current   *)
(* year or before 1900, or when no format parses; none when the year lies  *)
(* in [1900, current year].                                                *)
(***************************************************************************)
DateKinds == {"Future date", "Very old date", "Could not parse date"}

\* the formats that parse the value, by their place in DateFormats; none parses
\* a value that is not a string
ParsingFormats(value) ==
    IF value.t # "str" THEN {}
    ELSE { k \in 1..Len(DateFormats) : Strptime(value.s, DateFormats[k]).ok }

\* the warning the claim expects for the value, "" when it expects none
ExpectedDateWarning(value) ==
    IF ParsingFormats(value) = {} THEN "Could not parse date"
    ELSE LET year == Strptime(value.s, DateFormats[Smallest(ParsingFormats(value))]).year
         IN  IF year > current_year THEN "Future date"
             ELSE IF year < 1900 THEN "Very old date"
             ELSE ""

\* how many entries of a message list the date check wrote for the field
DateMessagesOf(list, field) ==
    Cardinality({ i \in 1..Len(list) : list[i].field = field /\ list[i].kind \in DateKinds })

DateCheckOfEveryField ==
    pc = "done" =>
        \A k \in 1..Len(DateFields) :
            LET field == DateFields[k]
            IN  field \in DOMAIN extracted_data =>
                    LET expected == ExpectedDateWarning(extracted_data[field])
                    IN  /\ DateMessagesOf(errors, field) = DateMessagesOf(args.errors, field)
                        /\ DateMessagesOf(warnings, field) = IF expected = "" THEN 0 ELSE 1
                        /\ expected # "" => CountOf(warnings, expected, field) = 1

(***************************************************************************)
(* C27: for a form type without a rule set (any type other than '1040' and *)
(* 'W2') validate_extracted_data returns is_valid true, confidence 1.0 and *)
(* empty errors and warnings whatever the extracted_data: no               *)
(* required-field, range, SSN, EIN or date check is applied.               *)
(***************************************************************************)
NoRuleSetGivesCleanResult ==
    (pc # "call" /\ form_type \notin {"1040", "W2"}) =>
        /\ pc = "done"
        /\ validation = ValidationResult(TRUE, FullConfidence, <<>>, <<>>)

\* a '1099' whose data would fail the SSN check and the range check of a 1040
NoRuleSetWitness ==
    /\ pc = "done"
    /\ form_type = "1099"
    /\ "ssn" \in DOMAIN extracted_data
    /\ extracted_data["ssn"] = Str("123-456-789")
    /\ "total_income" \in DOMAIN extracted_data
    /\ extracted_data["total_income"] = Str("-5")
    /\ validation.is_valid

(***************************************************************************)
(* C28: _merge_overlapping_entities only selects and is idempotent: the    *)
(* returned list holds only entities of the input list, unmodified and     *)
(* each at most once, it is empty exactly when the input list is empty,    *)
(* and merging the returned list again returns the same list.              *)
(***************************************************************************)
MergeSelectsAndIsIdempotent ==
    pc = "done" =>
        /\ \A k \in 1..Len(merged) :
               \E i \in 1..Len(input_entities) : merged[k] = input_entities[i]
        /\ \A k, l \in 1..Len(merged) : k # l => merged[k] # merged[l]
        /\ merged = <<>> <=> input_entities = <<>>
        /\ MergeOverlappingEntities(merged) = merged

\* three entities given out of order, two of them equal, merged into two
MergeSelectsWitness ==
    /\ pc = "done"
    /\ Len(input_entities) = 3
    /\ input_entities[1] = input_entities[3]
    /\ input_entities[2].start_pos < input_entities[1].start_pos
    /\ Len(merged) = 2
    /\ MergeOverlappingEntities(merged) = merged

(***************************************************************************)
(* C29: a required field present with the number 0 (total_income == 0 on a *)
(* '1040', a value inside its range 0 .. 10000000) is reported as missing, *)
(* with one required-field error and 0.2 off, so the result is invalid;    *)
(* the same field given as the string '0' is not reported as missing.      *)
(***************************************************************************)
\* the required fields of the form type
RequiredFields == SeqToSet(FormConfig(form_type).required_fields)

ZeroIsMissingButZeroStringIsNot ==
    (pc = "done" /\ form_type \in {"1040", "W2"}) =>
        \A field \in RequiredFields \cap DOMAIN extracted_data :
            /\ extracted_data[field] = Num(0) =>
                   /\ CountOf(errors, "Required field is missing", field) = 1
                   /\ ~validation.is_valid
                   /\ ReturnedNormally =>
                          /\ CountOf(validation.errors, "Required field is missing", field) = 1
                          /\ confidence = FullConfidence - TotalPenalty(errors)
                                              - TotalPenalty(warnings)
            /\ extracted_data[field] = Str("0") =>
                   CountOf(errors, "Required field is missing", field) = 0

\* a 1040 with all four required fields, total_income being the number 0: the
\* only issue is the missing-field error, and 0.2 is taken off
ZeroIsMissingWitness ==
    /\ pc = "done"
    /\ form_type = "1040"
    /\ DOMAIN extracted_data = RequiredFields
    /\ extracted_data["total_income"] = Num(0)
    /\ validation.errors = <<Message("Required field is missing", "total_income")>>
    /\ validation.confidence = FullConfidence - RequiredPenalty
    /\ ~validation.is_valid

(***************************************************************************)
(* EFilingIntegration: prepare_submission, submit_tax_form,                *)
(* check_submission_status, and the IRS MeF provider behind them           *)
(***************************************************************************)
\* most submissions prepare_submission is asked for
MaxSubmissions == 1
\* most requests posted to the provider's endpoint
MaxPosts == 2

\* bool(value) of a value of submission_data: the token encrypt_data returns is
\* a non-empty str
IsSet(value) == value.t = "encrypted" \/ Truthy(value)

\* required_fields.get(submission.submission_data.get('form_type', ''), [])
SubmissionRequiredFields(data) ==
    IF "form_type" \in DOMAIN data /\ data["form_type"] = Str("1040")
    THEN <<"name", "ssn", "filing_status", "total_income">>
    ELSE <<>>

\* the loop over the required fields of _validate_submission
RECURSIVE MissingFieldErrors(_, _)
MissingFieldErrors(data, fields) ==
    IF fields = <<>> THEN <<>>
    ELSE LET field == Head(fields)
             rest == MissingFieldErrors(data, Tail(fields))
         IN  IF field \notin DOMAIN data \/ ~IsSet(data[field])
             THEN <<"Required field '" \o field \o "' is missing">> \o rest
             ELSE rest

\* EFilingIntegration._validate_ssn: re.match(r'^\d{3}-\d{2}-\d{4}$', ssn); the
\* base64 text of an encrypted value has no '-' in it
ValidateSSN(ssn) ==
    IF ssn.t = "encrypted" THEN FALSE ELSE MatchesToEnd(ssn.s, SSNPattern)

\* EFilingIntegration._validate_submission
ValidateSubmission(submission, year_now) ==
    LET data == submission.submission_data
        missing == MissingFieldErrors(data, SubmissionRequiredFields(data))
        ssn_errors == IF "ssn" \in DOMAIN data /\ ~ValidateSSN(data["ssn"])
                      THEN <<"Invalid SSN format">> ELSE <<>>
        year_errors == IF submission.tax_year > year_now
                       THEN <<"Invalid tax year: "
                                  \o DecimalDigits(submission.tax_year)>>
                       ELSE <<>>
        all_errors == missing \o ssn_errors \o year_errors
    IN  [is_valid |-> Len(all_errors) = 0, errors |-> all_errors]

\* what self.session.post does: it raises, or it answers with a status code
\* and a body; the body is kept as the elements the parsers look for
PostRaises(message) == [raised |-> TRUE, error |-> message, status_code |-> 0, body |-> <<>>]
PostAnswers(status_code, body) == [raised |-> FALSE, error |-> "", status_code |-> status_code, body |-> body]

\* a body that is not XML
Malformed == [malformed |-> TRUE]
\* a SOAP body with the given elements (None: the element is absent)
Body(status, ack, error_texts) == [malformed |-> FALSE, SubmissionStatus |-> status, AcknowledgmentId |-> ack, Errors |-> error_texts]

\* IRSMeFIntegration._parse_mef_response
ParseMefResponse(body) ==
    IF body.malformed
    THEN [status |-> "error", errors |-> <<"syntax error: line 1, column 0">>]
    ELSE [status |-> IF body.SubmissionStatus = None THEN "unknown"
                     ELSE body.SubmissionStatus.s,
          acknowledgment_id |-> body.AcknowledgmentId,
          errors |-> body.Errors]

\* response_data.get(key, default)
GetOr(response_data, key, default) ==
    IF key \in DOMAIN response_data THEN response_data[key] ELSE default

\* IRSMeFIntegration.submit_transmission(transmission_xml, submission): the
\* submission as the call leaves it and the dict it returns, or the exception
\* of the post; aliased tells that submission.error_messages and
\* response_data['errors'] are one list object
SubmitTransmission(submission, response) ==
    IF response.raised
    THEN [raised |-> TRUE, error |-> response.error, submission |-> submission,
          value |-> <<>>, aliased |-> FALSE]
    ELSE IF response.status_code = 200
    THEN LET response_data == ParseMefResponse(response.body)
         IN  IF response_data.status = "accepted"
             THEN [raised |-> FALSE, error |-> "",
                   submission |->
                       [submission EXCEPT
                           !.submission_status = "transmitted",
                           !.transmitted_date = UtcNow,
                           !.acknowledgment_id =
                               GetOr(response_data, "acknowledgment_id", None)],
                   value |-> response_data, aliased |-> FALSE]
             ELSE [raised |-> FALSE, error |-> "",
                   submission |->
                       [submission EXCEPT
                           !.submission_status = "rejected",
                           !.error_messages = GetOr(response_data, "errors", <<>>)],
                   value |-> response_data,
                   aliased |-> "errors" \in DOMAIN response_data]
    ELSE [raised |-> FALSE, error |-> "", submission |-> submission,
          value |-> [status |-> "error",
                     error_code |-> response.status_code,
                     error_message |-> "Internal Server Error"],
          aliased |-> FALSE]


\* the return of submit_tax_form when the pre-send validation fails
ValidationFailed(validation_result) ==
    [success |-> FALSE, status |-> "validation_failed", errors |-> validation_result.errors]

\* the except branch of submit_tax_form
SubmitFailure(submission, message) ==
    [submission |->
         [submission EXCEPT
             !.submission_status = "error",
             !.error_messages = Append(submission.error_messages, message)],
     value |-> [success |-> FALSE, status |-> "error", error_message |-> message],
     asked |-> TRUE]

\* lines 506-521 of submit_tax_form: the submission is updated with the result
\* of the provider and the result dict is built; when error_messages and
\* result['errors'] are one list, extend doubles it for both
UpdateWithResult(sent) ==
    LET result == sent.value
        with_status ==
            [sent.submission EXCEPT
                !.submission_status = GetOr(result, "status", "unknown")]
        with_ack ==
            IF "acknowledgment_id" \in DOMAIN result
            THEN [with_status EXCEPT
                     !.acknowledgment_id = result["acknowledgment_id"],
                     !.transmitted_date = UtcNow]
            ELSE with_status
        extended ==
            IF "errors" \in DOMAIN result
            THEN with_ack.error_messages \o result["errors"]
            ELSE with_ack.error_messages
    IN  [submission |-> [with_ack EXCEPT !.error_messages = extended],
         value |->
             [success |-> GetOr(result, "status", None) \notin {"error", "rejected"},
              status |-> GetOr(result, "status", None),
              submission_id |-> sent.submission.submission_id,
              acknowledgment_id |-> GetOr(result, "acknowledgment_id", None),
              errors |-> IF sent.aliased THEN extended
                         ELSE GetOr(result, "errors", <<>>)],
         asked |-> TRUE]

\* submit_tax_form without its pre-send validation
SubmitTaxFormUnvalidated(submission, response, year_now) ==
    CHOOSE r \in
        { IF sent.raised THEN SubmitFailure(sent.submission, sent.error)
          ELSE UpdateWithResult(sent) :
          sent \in {SubmitTransmission(submission, response)} } : TRUE

\* EFilingIntegration.submit_tax_form(submission) with the irs_mef provider:
\* the submission as the call leaves it, the dict it returns, and whether the
\* provider was asked to transmit; create_mef_transmission builds the 1040
\* return only for submission_data whose form_type is '1040'
SubmitTaxForm(submission, response, year_now) ==
    LET validation_result == ValidateSubmission(submission, year_now)
    IN  IF ~validation_result.is_valid
        THEN [submission |-> submission,
              value |-> ValidationFailed(validation_result),
              asked |-> FALSE]
        ELSE CHOOSE r \in
                 { IF sent.raised THEN SubmitFailure(sent.submission, sent.error)
                   ELSE UpdateWithResult(sent) :
                   sent \in {SubmitTransmission(submission, response)} } : TRUE

\* the request submit_transmission posts for a submission
SubmitReturn(submission) == [action |-> "SubmitReturn", about |-> submission.submission_id]
\* the request check_acknowledgment_status posts
GetAcknowledmentStatus(acknowledgment_id) == [action |-> "GetAcknowledmentStatus", about |-> acknowledgment_id]


\* a status answer with the given ProcessingStatus element (None: absent)
StatusBody(status) == [malformed |-> FALSE, ProcessingStatus |-> status]

\* IRSMeFIntegration._parse_status_response
ParseStatusResponse(body) ==
    IF body.malformed
    THEN [status |-> "error", errors |-> <<"syntax error: line 1, column 0">>]
    ELSE [status |-> IF body.ProcessingStatus = None THEN "unknown"
                     ELSE body.ProcessingStatus.s,
          checked_date |-> UtcNow]

\* IRSMeFIntegration.check_acknowledgment_status
CheckAcknowledgmentStatus(response) ==
    IF response.raised THEN [raised |-> TRUE, error |-> response.error, value |-> <<>>]
    ELSE IF response.status_code = 200
    THEN [raised |-> FALSE, error |-> "", value |-> ParseStatusResponse(response.body)]
    ELSE [raised |-> FALSE, error |-> "",
          value |-> [status |-> "error",
                     error_message |-> "Status check failed: "
                                           \o DecimalDigits(response.status_code)]]

\* the place of submission_id in self.submissions, 0 when it is not a key
Lookup(stored, submission_id) ==
    IF \E i \in 1..Len(stored) : stored[i].submission_id = submission_id
    THEN CHOOSE i \in 1..Len(stored) : stored[i].submission_id = submission_id
    ELSE 0

\* EFilingIntegration.check_submission_status(submission_id): the store as
\* the call leaves it, the dict it returns and whether the provider was asked
CheckSubmissionStatus(stored, submission_id, response) ==
    LET i == Lookup(stored, submission_id)
    IN  IF i = 0
        THEN [submissions |-> stored, asked |-> FALSE,
              value |-> [found |-> FALSE, error |-> "Submission not found"]]
        ELSE IF ~Truthy(stored[i].acknowledgment_id)
        THEN [submissions |-> stored, asked |-> FALSE,
              value |-> [found |-> TRUE,
                         submission_id |-> submission_id,
                         status |-> stored[i].submission_status,
                         created_date |-> stored[i].created_date,
                         errors |-> stored[i].error_messages]]
        ELSE CHOOSE r \in
                 { IF status_result.raised
                   THEN [submissions |-> stored, asked |-> TRUE,
                         value |-> [found |-> FALSE, error |-> status_result.error]]
                   ELSE LET checked ==
                                IF status_result.value.status # "error"
                                THEN [stored[i] EXCEPT
                                         !.submission_status = status_result.value.status,
                                         !.acknowledged_date = UtcNow]
                                ELSE stored[i]
                        IN  [submissions |-> [stored EXCEPT ![i] = checked],
                             asked |-> TRUE,
                             value |-> [found |-> TRUE,
                                        submission_id |-> submission_id,
                                        status |-> checked.submission_status,
                                        acknowledgment_id |-> checked.acknowledgment_id,
                                        submitted_date |-> checked.transmitted_date,
                                        last_checked |-> UtcNow,
                                        errors |-> checked.error_messages]] :
                   status_result \in {CheckAcknowledgmentStatus(response)} } : TRUE

\* the form data handed to prepare_submission
EFilingForms ==
    { [form_type |-> Str("W2"), name |-> Str("John Doe")],
      [form_type |-> Str("1040"), name |-> Str("John Doe")],
      [name |-> Str("John Doe"), ssn |-> Str("")],
      [name |-> Str("John Doe"), ssn |-> List(<<"123-45-6789">>)],
      [form_id |-> Str("FORM_001"), name |-> Str("John Doe"),
       ssn |-> Str("123-45-6789"), filing_status |-> Str("single"),
       total_income |-> Str("50000")],
      [form_type |-> Str("1040"), form_id |-> Str("FORM_001"),
       name |-> Str("John Doe"), ssn |-> Str("123-45-6789"),
       filing_status |-> Str("single"), total_income |-> Str("50000")] }

\* the tax_year handed to prepare_submission with a form: the current year,
\* and the next one for the form without an ssn and for the complete 1040
TaxYears(form_data) ==
    IF "form_type" \in DOMAIN form_data
           /\ (form_data["form_type"] = Str("W2") \/ "ssn" \in DOMAIN form_data)
    THEN {2026, 2027} ELSE {2026}

\* what the provider's endpoint does with a submitted transmission
SubmitResponses ==
    { PostRaises("Connection refused"),
      PostAnswers(500, Malformed),
      PostAnswers(200, Malformed),
      PostAnswers(200, Body(Str("accepted"), Str("ACK123456789"), <<>>)),
      PostAnswers(200, Body(Str("rejected"), None, <<"1001: Invalid SSN format">>)),
      PostAnswers(200, Body(None, None, <<>>)) }

\* what it does with a status inquiry
StatusResponses ==
    { PostRaises("Connection refused"),
      PostAnswers(500, Malformed),
      PostAnswers(200, StatusBody(Str("accepted"))),
      PostAnswers(200, StatusBody(Str("processing"))) }

\* the ids a caller asks check_submission_status about: those of the store
\* and one that is not in it
KnownIds(stored) == { stored[i].submission_id : i \in 1..Len(stored) } \cup {"SUB_0"}

\* the exception that left a call, by its message
Failure(message) == [error_message |-> message]

\* what a call left behind: its name, the id it was about, whether an
\* exception left it, and the value returned (the exception)
Call(name, about, raised, value) == [call |-> name, about |-> about, raised |-> raised, value |-> value]

InitEFiling ==
    /\ pc = "call"
    /\ current_year \in CurrentYears
    /\ submissions = <<>> /\ posted = <<>> /\ returned = None
    /\ config = Unused /\ files_to_process = Unused /\ batch_results = Unused
    /\ db_records = Unused /\ output_files = Unused
    /\ nlp = Unused /\ ner_pipeline = Unused
    /\ text = Unused /\ form_scores = Unused /\ envelope = Unused
    /\ form_type = Unused /\ extracted_data = Unused /\ args = Unused
    /\ errors = Unused /\ warnings = Unused /\ confidence = Unused
    /\ validation = Unused
    /\ input_entities = Unused /\ entities = Unused /\ merged = Unused

efiling_unchanged ==
    <<config, files_to_process, batch_results, db_records, output_files, nlp,
      ner_pipeline, current_year, text, form_scores, envelope, form_type,
      extracted_data, args, errors, warnings, confidence, validation, merge_vars>>

\* submission = efiling.prepare_submission(form_data, form_type, tax_year)
PrepareSubmissionCall ==
    /\ Len(submissions) < MaxSubmissions
    /\ \E form_data \in EFilingForms :
       \E tax_year \in TaxYears(form_data) :
       \E out \in {PrepareSubmission(submissions, form_data, "1040", tax_year)} :
          /\ submissions' = out.submissions
          /\ returned' = Call("prepare_submission",
                              IF out.raised THEN "" ELSE out.value.submission_id,
                              out.raised,
                              IF out.raised THEN Failure(out.value) ELSE out.value)
    /\ pc' = "prepare_submission"
    /\ UNCHANGED <<posted, efiling_unchanged>>

\* efiling.submit_tax_form(submission) on a submission of the store
SubmitTaxFormCall ==
    /\ \E i \in 1..Len(submissions), response \in SubmitResponses :
       \E out \in {SubmitTaxForm(submissions[i], response, current_year)} :
          /\ out.asked => Len(posted) < MaxPosts
          /\ submissions' = [submissions EXCEPT ![i] = out.submission]
          /\ posted' = IF out.asked THEN Append(posted, SubmitReturn(submissions[i]))
                       ELSE posted
          /\ returned' = Call("submit_tax_form", submissions[i].submission_id,
                              FALSE, out.value)
    /\ pc' = "submit_tax_form"
    /\ UNCHANGED efiling_unchanged

\* efiling.provider.submit_transmission(transmission_xml, submission), called
\* by hand on a submission of the store
SubmitTransmissionCall ==
    /\ Len(posted) < MaxPosts
    /\ \E i \in 1..Len(submissions), response \in SubmitResponses :
       \E out \in {SubmitTransmission(submissions[i], response)} :
          /\ submissions' = [submissions EXCEPT ![i] = out.submission]
          /\ returned' = Call("submit_transmission", submissions[i].submission_id,
                              out.raised,
                              IF out.raised THEN Failure(out.error) ELSE out.value)
          /\ posted' = Append(posted, SubmitReturn(submissions[i]))
    /\ pc' = "submit_transmission"
    /\ UNCHANGED efiling_unchanged

\* efiling.check_submission_status(submission_id)
CheckSubmissionStatusCall ==
    /\ \E submission_id \in KnownIds(submissions), response \in StatusResponses :
       \E out \in {CheckSubmissionStatus(submissions, submission_id, response)} :
          /\ out.asked => Len(posted) < MaxPosts
          /\ submissions' = out.submissions
          /\ posted' =
                 IF out.asked
                 THEN Append(posted,
                             GetAcknowledmentStatus(
                                 submissions[Lookup(submissions, submission_id)]
                                     .acknowledgment_id.s))
                 ELSE posted
          /\ returned' = Call("check_submission_status", submission_id, FALSE, out.value)
    /\ pc' = "check_submission_status"
    /\ UNCHANGED efiling_unchanged

NextEFiling ==
    \/ PrepareSubmissionCall
    \/ SubmitTaxFormCall
    \/ SubmitTransmissionCall
    \/ CheckSubmissionStatusCall

SpecEFiling == InitEFiling /\ [][NextEFiling]_vars

(***************************************************************************)
(* C30: when submit_tax_form rejects a submission at the pre-send          *)
(* validation, it returns success false, status 'validation_failed' and    *)
(* the validation errors, posts nothing to the provider, and leaves the    *)
(* submission_status, acknowledgment_id, transmitted_date and              *)
(* error_messages of the submission as they were.                          *)
(***************************************************************************)
\* the submission of the store a call was about, in the given store
SubmissionOf(stored, call) == stored[Lookup(stored, call.about)]

\* what _validate_submission objects to, read from submission_data itself
FailsPreSendValidation(submission, year_now) ==
    LET data == submission.submission_data
    IN  \/ /\ "form_type" \in DOMAIN data
           /\ data["form_type"] = Str("1040")
           /\ \E field \in {"name", "ssn", "filing_status", "total_income"} :
                 field \notin DOMAIN data \/ data[field] \in {Str(""), None, Num(0)}
        \/ /\ "ssn" \in DOMAIN data
           /\ ~(data["ssn"].t = "str" /\ HasShape(data["ssn"].s, SSNPattern))
        \/ submission.tax_year > year_now

RejectionLeavesSubmissionAlone ==
    [][(pc' = "submit_tax_form"
          /\ FailsPreSendValidation(SubmissionOf(submissions, returned'), current_year))
       => /\ returned'.value.success = FALSE
          /\ returned'.value.status = "validation_failed"
          /\ returned'.value.errors # <<>>
          /\ returned'.value.errors =
                 ValidateSubmission(SubmissionOf(submissions, returned'),
                                    current_year).errors
          /\ posted' = posted
          /\ LET before == SubmissionOf(submissions, returned')
                 after == SubmissionOf(submissions', returned')
             IN  /\ after.submission_status = before.submission_status
                 /\ after.acknowledgment_id = before.acknowledgment_id
                 /\ after.transmitted_date = before.transmitted_date
                 /\ after.error_messages = before.error_messages]_vars

\* a 1040 without its ssn, filing status and income was rejected after an
\* earlier call had already marked the submission
RejectionWitness ==
    /\ pc = "submit_tax_form"
    /\ returned.value.status = "validation_failed"
    /\ returned.value.errors = <<"Required field 'ssn' is missing",
                                 "Required field 'filing_status' is missing",
                                 "Required field 'total_income' is missing">>
    /\ SubmissionOf(submissions, returned).submission_status = "transmitted"
    /\ Len(posted) = 1

(***************************************************************************)
(* C25: for form data with every required 1040 field, an ssn in            *)
(* DDD-DD-DDDD format and a tax year not after the current year,           *)
(* submit_tax_form on the submission prepare_submission returned passes    *)
(* the pre-send validation (its status is not 'validation_failed') and the *)
(* provider is asked to transmit the submission.                           *)
(***************************************************************************)
\* the submission was prepared from form data of that kind: prepare_submission
\* copies every field and encrypts the ssn
PreparedFromComplete1040(submission) ==
    LET data == submission.submission_data
    IN  /\ {"name", "ssn", "filing_status", "total_income"} \subseteq DOMAIN data
        /\ \A field \in {"name", "filing_status", "total_income"} : Truthy(data[field])
        /\ data["ssn"].t = "encrypted"
        /\ data["ssn"].plain.t = "str"
        /\ HasShape(data["ssn"].plain.s, SSNPattern)
        /\ submission.tax_year <= current_year

PreparedSubmissionIsTransmitted ==
    (/\ pc = "submit_tax_form"
     /\ PreparedFromComplete1040(SubmissionOf(submissions, returned)))
    => /\ returned.value.status # "validation_failed"
       /\ \E i \in 1..Len(posted) : posted[i] = SubmitReturn(SubmissionOf(submissions, returned))

(***************************************************************************)
(* C26: in every state a submission reaches through prepare_submission,   *)
(* submit_tax_form, submit_transmission and check_submission_status, its   *)
(* submission_status is one of 'pending', 'accepted', 'rejected' and       *)
(* 'transmitted'; and after a provider response with status 'accepted'     *)
(* the submission is 'transmitted' with its acknowledgment_id set.         *)
(***************************************************************************)
\* the values the EFilingSubmission dataclass lists for submission_status
SubmissionStatuses == {"pending", "accepted", "rejected", "transmitted"}

\* the last call sent the submission and the provider answered 'accepted'
ProviderAccepted ==
    /\ pc \in {"submit_tax_form", "submit_transmission"}
    /\ ~returned.raised
    /\ returned.value.status = "accepted"

SubmissionStatusInItsDomain ==
    /\ \A i \in 1..Len(submissions) :
          submissions[i].submission_status \in SubmissionStatuses
    /\ ProviderAccepted =>
          /\ SubmissionOf(submissions, returned).submission_status = "transmitted"
          /\ SubmissionOf(submissions, returned).acknowledgment_id # None

====
